---- MODULE Spec2Model ----
(***************************************************************************)
(* A model of the real-time analytics pipeline of omupade20/prop3:         *)
(*   - MarketScanner      (src/strategy/scanner.py): the bounded rolling    *)
(*     bar store, its bar-close callbacks, alert throttling and snapshots; *)
(*   - Candle5mBuilder    (src/strategy/candle_5m_builder.py);              *)
(*   - on_message         (src/core/market_streamer.py).                    *)
(* Each component has its own specification over the shared variables.     *)
(***************************************************************************)
EXTENDS Integers, Sequences, FiniteSets, TLC

(***************************************************************************)
(* Bounds of the model.                                                    *)
(***************************************************************************)
MaxCap == 2
\* largest capacity max_len a MarketScanner is constructed with
MaxAppends == 4
\* number of append_ohlc_bar calls explored by SpecFifo
MaxCbAppends == 2
\* number of append_ohlc_bar calls explored by SpecCallbacks
MaxTime == 2
\* bar timestamps of the store's inputs are 1..MaxTime

MaxMinute == 5
\* the aggregator is fed bars of the minutes 0..MaxMinute of one hour
MaxFeeds == 6
\* number of Candle5mBuilder.update calls explored by SpecAgg

MaxMsgs == 4
\* number of feed messages explored by SpecStream

MaxSnapAppends == 2
\* number of append_ohlc_bar calls explored by SpecSnap
MaxOps == 3
\* number of store calls the threads of SpecThreads start
MaxObjs == 3
\* number of dict objects the store and its caller make
MaxWrites == 2
\* number of writes the caller makes into what it was handed
MaxNow == 4
\* the clock time.time() runs over 1..MaxNow
MaxCooldown == 2
MaxVwapUpdates == 3
VwapWindow == 2
MaxPeaks == 5
MaxSrBars == 8
ExtremaWindow == 3
MaxLoggedBars == 4
MaxIndicatorBars == 4
MaxPeriod == 2
\* cooldown_seconds and window_seconds are drawn from 1..MaxCooldown

Insts == {"A", "B"}
Callers == {"t1", "t2"}
Threads == {"t1", "t2", "t3"}
Directions == {"LONG", "SHORT"}
\* the calendar days the streamer runs over
Days == {1, 2}
\* the minutes of the bars the streamer receives: the last minute of a
\* 5-minute bucket and the first minute of the next
StreamMinutes == {4, 5}
Callbacks == {"cb1", "cb2"}
None == "None"

VARIABLES
    \* ---- MarketScanner (scanner.py:37-56)
    max_len,                  \* self.max_len
    bars,                     \* self._bars: instrument -> deque of bars
    bars_closed,              \* self.bars_closed
    on_bar_close_callbacks,   \* self._on_bar_close_callbacks
    \* ---- observation of the calls made on the store
    arrived,                  \* per instrument, every bar handed to append_ohlc_bar, in order
    lastCall,                 \* what the last append_ohlc_bar call did
    \* ---- Candle5mBuilder (candle_5m_builder.py:15-16)
    buffers,                  \* self._buffers: instrument -> candle in progress
    last_5m_time,             \* self._last_5m_time: instrument -> bucket closed last
    \* ---- observation of the calls made on the aggregator
    prevFed,                  \* per instrument, <<time of the bar fed last>> (<<>>: none)
    retLog,                   \* per instrument, what each update call returned, in order
    fedLog,                   \* per instrument, the bars a logged update was fed, in order
    \* ---- market_streamer.py:48-49 and its clock
    signals_today,            \* signals_today: day -> instruments that entered that day
    last_bar_time,            \* last_bar_time: instrument -> ts of the bar seen last
    today,                    \* datetime.now().date()
    \* ---- observation of the calls the streamer makes
    evals,                    \* per instrument, number of strategy_engine.evaluate calls
    executes,                 \* per (instrument, day), number of EXECUTE_* decisions evaluate returned
    entries,                  \* per <<instrument, day>>, number of handle_entry calls
    msgs,                     \* number of messages handled
    \* ---- MarketScanner alert state (scanner.py:47-49) and the clock
    last_alert_time,          \* self.last_alert_time: instrument -> time
    dedupe_map,               \* self._dedupe_map: instrument -> direction -> time
    paused_until,             \* self._paused_until: instrument -> time
    now,                      \* time.time()
    \* ---- observation of the alert calls
    canRes,                   \* the last can_emit_alert call and what it returned
    \* ---- threads inside dedupe_alert
    dpc,                      \* per thread: "idle", "check" (last was read) or "done"
    dloc,                     \* per thread: the call's arguments and locals
    overlap,                  \* a dedupe_alert call began while another was in progress
    \* ---- the file system and the snapshot calls
    files,                    \* path -> content of the file at that path
    loadRes,                  \* the last load_snapshot call: file, result, state before/after
    \* ---- threads inside the store (scanner.py:43-44, 56)
    pc,                       \* per thread, where it is
    loc,                      \* per thread, the arguments and locals of its call
    global_lock,              \* self._global_lock: the thread holding it, or None
    locks,                    \* self._locks: instrument -> the thread holding it, or None
    replay_mode,              \* self.replay_mode
    ops,                      \* number of calls started by the threads
    lastSave,                 \* the last save_snapshot call that finished
    \* ---- the file system under save_snapshot (scanner.py:245-249)
    dir,                      \* path -> number of the file (inode) at that path
    inodes,                   \* file number -> what has been written into that file
    fd,                       \* per thread, the number of the file it has open (0: none)
    \* ---- the bar objects of the store and of its callers (scanner.py:93-151)
    heap,                     \* object number -> the dict at that address
    refs,                     \* instrument -> the objects its deque holds, in order
    held,                     \* the objects the caller got from the last call, and its writes
    \* ---- the decision pipeline (decision_engine.py, strategy_engine.py)
    decision,                 \* the last call made: its inputs and what came out
    \* ---- one VWAPCalculator (vwap_filter.py:34-46)
    calc,                     \* its window, sums, history and window deques
    vwap_trace                \* the last call on it and the updates since it was empty

storeVars == <<max_len, bars, bars_closed, on_bar_close_callbacks, arrived, lastCall>>
aggVars == <<buffers, last_5m_time, prevFed, retLog, fedLog>>
streamVars == <<signals_today, last_bar_time, today, evals, executes, entries, msgs>>
alertVars == <<last_alert_time, dedupe_map, paused_until, now, canRes>>
dedupeVars == <<dpc, dloc, overlap>>
snapVars == <<files, loadRes>>
thrVars == <<pc, loc, global_lock, locks, replay_mode, ops, lastSave>>
fsVars == <<dir, inodes, fd>>
aliasVars == <<heap, refs, held>>
decVars == <<decision>>
vwapVars == <<calc, vwap_trace>>

vars == <<storeVars, aggVars, streamVars, alertVars, dedupeVars, snapVars, thrVars,
          fsVars, aliasVars, decVars, vwapVars>>

(***************************************************************************)
(* Helpers                                                                 *)
(***************************************************************************)
Min(a, b) == IF a <= b THEN a ELSE b

\* the last n elements of s (python s[-n:] for n >= 1)
LastN(s, n) == IF Len(s) <= n THEN s ELSE SubSeq(s, Len(s) - n + 1, Len(s))

RemoveAt(s, i) == SubSeq(s, 1, i - 1) \o SubSeq(s, i + 1, Len(s))

RECURSIVE IndexOf(_, _, _)
IndexOf(s, x, i) ==
    IF i > Len(s) THEN 0 ELSE IF s[i] = x THEN i ELSE IndexOf(s, x, i + 1)

InSeq(s, x) == \E i \in 1..Len(s) : s[i] = x

\* list.remove(x): removes the first occurrence
ListRemove(s, x) == IF InSeq(s, x) THEN RemoveAt(s, IndexOf(s, x, 1)) ELSE s

(***************************************************************************)
(* Bars                                                                    *)
(***************************************************************************)
\* scanner.py:93-100, the dict append_ohlc_bar builds
MakeBar(time_iso, open_p, high_p, low_p, close_p, volume) ==
    [time |-> time_iso, open |-> open_p, high |-> high_p, low |-> low_p,
     close |-> close_p, volume |-> volume]

\* the bars fed to the store: distinct bars, told apart by their time
BarInputs == { MakeBar(t, t, t + 1, t, t, 10 * t) : t \in 1..MaxTime }

(***************************************************************************)
(* MarketScanner: ingestion                                                *)
(***************************************************************************)
\* a deque(maxlen=n).append(x) that loses the new bar when full
DequeAppendDropNewest(dq, bar, maxlen) ==
    IF Len(dq) >= maxlen THEN dq ELSE Append(dq, bar)

\* collections.deque(maxlen=n).append(x): the oldest element is discarded when full
DequeAppend(dq, bar, maxlen) ==
    IF maxlen = 0 THEN <<>>
    ELSE IF Len(dq) >= maxlen THEN Append(Tail(dq), bar)
    ELSE Append(dq, bar)

\* deque(iterable, maxlen=n): keeps the last n items
DequeFrom(items, maxlen) ==
    IF maxlen = 0 THEN <<>> ELSE LastN(items, maxlen)

\* MarketScanner._ensure_inst
EnsureInst(b, inst) ==
    IF inst \in DOMAIN b THEN b
    ELSE [i \in DOMAIN b \cup {inst} |-> IF i = inst THEN <<>> ELSE b[i]]

\* What a callback does when invoked: returns, raises an Exception, or
\* unregisters itself (unregister_on_bar_close) and returns.
CbOutcomes == {"ok", "raise", "unreg"}

\* a dispatch loop without the try/except: the first raising callback ends it
RECURSIVE DispatchNoCatch(_, _, _, _, _, _)
DispatchNoCatch(cbs, outs, inst, bar, i, st) ==
    IF i > Len(cbs) THEN st
    ELSE LET nx == [invoked |-> Append(st.invoked, <<cbs[i], inst, bar>>),
                    registry |-> IF outs[i] = "unreg"
                                 THEN ListRemove(st.registry, cbs[i])
                                 ELSE st.registry,
                    raised |-> IF outs[i] = "raise" THEN st.raised \cup {cbs[i]}
                               ELSE st.raised,
                    outcome |-> IF outs[i] = "raise" THEN "exception" ELSE "returned"]
         IN IF outs[i] = "raise" THEN nx
            ELSE DispatchNoCatch(cbs, outs, inst, bar, i + 1, nx)

\* scanner.py:107-111: for cb in list(callbacks): try: cb(inst, bar)
\* except Exception: pass.  cbs is the copy of the registry taken when the
\* loop starts; st.registry is the live registry, which a callback may change.
RECURSIVE Dispatch(_, _, _, _, _, _)
Dispatch(cbs, outs, inst, bar, i, st) ==
    IF i > Len(cbs) THEN st
    ELSE Dispatch(cbs, outs, inst, bar, i + 1,
            [invoked |-> Append(st.invoked, <<cbs[i], inst, bar>>),
             registry |-> IF outs[i] = "unreg" THEN ListRemove(st.registry, cbs[i])
                          ELSE st.registry,
             raised |-> IF outs[i] = "raise" THEN st.raised \cup {cbs[i]}
                        ELSE st.raised,
             outcome |-> "returned"])

DispatchStart(registry) ==
    [invoked |-> <<>>, registry |-> registry, raised |-> {}, outcome |-> "returned"]

\* no append_ohlc_bar call was made yet
NoCall ==
    [inst |-> None, bar |-> None, cbs |-> <<>>, invoked |-> <<>>, raised |-> {},
     outcome |-> None, afterRaise |-> FALSE]

\* MarketScanner.append_ohlc_bar, the whole call on one thread
AppendOhlcBar(inst, bar, outs) ==
    LET b1 == EnsureInst(bars, inst)
        b2 == [b1 EXCEPT ![inst] = DequeAppend(b1[inst], bar, max_len)]
        cbs == on_bar_close_callbacks
        d == Dispatch(cbs, outs, inst, bar, 1, DispatchStart(cbs))
    IN /\ bars' = b2
       /\ bars_closed' = bars_closed + 1
       /\ on_bar_close_callbacks' = d.registry
       /\ arrived' = [arrived EXCEPT ![inst] = Append(@, bar)]
       /\ lastCall' = [inst |-> inst, bar |-> bar, cbs |-> cbs,
                       invoked |-> d.invoked, raised |-> d.raised,
                       outcome |-> d.outcome,
                       afterRaise |-> lastCall.afterRaise \/ lastCall.raised # {}]
       /\ UNCHANGED <<max_len, aggVars, streamVars, thrVars, fsVars, aliasVars, decVars, vwapVars, alertVars, dedupeVars, snapVars>>

\* MarketScanner.register_on_bar_close
RegisterOnBarClose(cb) ==
    /\ on_bar_close_callbacks' =
          IF InSeq(on_bar_close_callbacks, cb) THEN on_bar_close_callbacks
          ELSE Append(on_bar_close_callbacks, cb)
    /\ UNCHANGED <<max_len, bars, bars_closed, arrived, lastCall, aggVars, streamVars, thrVars, fsVars, aliasVars, decVars, vwapVars,
                   alertVars, dedupeVars, snapVars>>

\* MarketScanner.unregister_on_bar_close
UnregisterOnBarClose(cb) ==
    /\ on_bar_close_callbacks' = ListRemove(on_bar_close_callbacks, cb)
    /\ UNCHANGED <<max_len, bars, bars_closed, arrived, lastCall, aggVars, streamVars, thrVars, fsVars, aliasVars, decVars, vwapVars,
                   alertVars, dedupeVars, snapVars>>

\* MarketScanner.__init__
InitStore ==
    /\ max_len \in 1..MaxCap
    /\ bars = <<>>
    /\ bars_closed = 0
    /\ on_bar_close_callbacks = <<>>
    /\ arrived = [i \in Insts |-> <<>>]
    /\ lastCall = NoCall

(***************************************************************************)
(* Candle5mBuilder                                                         *)
(***************************************************************************)
\* Times are seconds since the start of an hour-aligned day, so that
\* datetime's minute-of-hour is (t \div 60) % 60.

\* Candle5mBuilder._floor_5m: minute floored to a multiple of 5, second zeroed
Floor5m(t) ==
    LET hour == t \div 3600
        minute == (t \div 60) % 60
    IN hour * 3600 + ((minute \div 5) * 5) * 60

Max(a, b) == IF a >= b THEN a ELSE b

\* an update that reports a close whenever it opens a bucket, the first included
BuilderUpdateCloseOnFirst(bufs, last5, inst, time_iso, open_p, high_p, low_p, close_p, volume) ==
    LET bucket == Floor5m(time_iso)
        has == inst \in DOMAIN bufs
        fresh == [time |-> bucket, open |-> open_p, high |-> high_p,
                  low |-> low_p, close |-> close_p, volume |-> volume]
    IN IF ~has \/ bufs[inst].time # bucket
       THEN [buffers |-> [i \in DOMAIN bufs \cup {inst} |->
                             IF i = inst THEN fresh ELSE bufs[i]],
             last_5m_time |-> last5,
             ret |-> TRUE]
       ELSE [buffers |-> bufs, last_5m_time |-> last5, ret |-> FALSE]

\* an update whose candle takes the high of the bar fed last
BuilderUpdateLastHigh(bufs, last5, inst, time_iso, open_p, high_p, low_p, close_p, volume) ==
    LET bucket == Floor5m(time_iso)
        has == inst \in DOMAIN bufs
        fresh == [time |-> bucket, open |-> open_p, high |-> high_p,
                  low |-> low_p, close |-> close_p, volume |-> volume]
    IN IF ~has \/ bufs[inst].time # bucket
       THEN [buffers |-> [i \in DOMAIN bufs \cup {inst} |->
                             IF i = inst THEN fresh ELSE bufs[i]],
             last_5m_time |->
                 IF has
                 THEN [i \in DOMAIN last5 \cup {inst} |->
                          IF i = inst THEN bufs[inst].time ELSE last5[i]]
                 ELSE last5,
             ret |-> has]
       ELSE [buffers |-> [bufs EXCEPT ![inst] =
                             [@ EXCEPT !.high = high_p,
                                       !.low = Min(@, low_p),
                                       !.close = close_p,
                                       !.volume = @ + volume]],
             last_5m_time |-> last5,
             ret |-> FALSE]

\* Candle5mBuilder.update as a function of the builder's state:
\* the new _buffers, the new _last_5m_time and the value returned
BuilderUpdate(bufs, last5, inst, time_iso, open_p, high_p, low_p, close_p, volume) ==
    LET bucket == Floor5m(time_iso)
        has == inst \in DOMAIN bufs           \* buf is not None (and not empty)
        fresh == [time |-> bucket, open |-> open_p, high |-> high_p,
                  low |-> low_p, close |-> close_p, volume |-> volume]
    IN IF ~has \/ bufs[inst].time # bucket
       THEN [buffers |-> [i \in DOMAIN bufs \cup {inst} |->
                             IF i = inst THEN fresh ELSE bufs[i]],
             last_5m_time |->
                 IF has
                 THEN [i \in DOMAIN last5 \cup {inst} |->
                          IF i = inst THEN bufs[inst].time ELSE last5[i]]
                 ELSE last5,
             ret |-> has]
       ELSE [buffers |-> [bufs EXCEPT ![inst] =
                             [@ EXCEPT !.high = Max(@, high_p),
                                       !.low = Min(@, low_p),
                                       !.close = close_p,
                                       !.volume = @ + volume]],
             last_5m_time |-> last5,
             ret |-> FALSE]

\* a call of Candle5mBuilder.update
Update(inst, time_iso, open_p, high_p, low_p, close_p, volume) ==
    LET r == BuilderUpdate(buffers, last_5m_time, inst, time_iso,
                           open_p, high_p, low_p, close_p, volume)
    IN /\ buffers' = r.buffers
       /\ last_5m_time' = r.last_5m_time
       /\ prevFed' = [prevFed EXCEPT ![inst] = <<time_iso>>]
       /\ retLog' = [retLog EXCEPT ![inst] = Append(@, r.ret)]
       /\ fedLog' = fedLog
       /\ UNCHANGED <<storeVars, streamVars, thrVars, fsVars, aliasVars, decVars, vwapVars, alertVars, dedupeVars, snapVars>>

\* Candle5mBuilder.get_latest: the candle in progress, if any
GetLatest(bufs, inst) == IF inst \in DOMAIN bufs THEN {bufs[inst]} ELSE {}

\* Candle5mBuilder.get_last_closed_time: the bucket closed last, if any
GetLastClosedTime(last5, inst) == IF inst \in DOMAIN last5 THEN {last5[inst]} ELSE {}

\* Candle5mBuilder.__init__
InitAgg ==
    /\ buffers = <<>>
    /\ last_5m_time = <<>>
    /\ prevFed = [i \in Insts |-> <<>>]
    /\ retLog = [i \in Insts |-> <<>>]
    /\ fedLog = [i \in Insts |-> <<>>]

(***************************************************************************)
(* market_streamer.on_message                                              *)
(***************************************************************************)
\* the store part of append_ohlc_bar (scanner.py:91-104); the streamer
\* registers no bar-close callback
StoreAppend(b, inst, bar, maxlen) ==
    LET b1 == EnsureInst(b, inst)
    IN [b1 EXCEPT ![inst] = DequeAppend(b1[inst], bar, maxlen)]

\* market_streamer.py:110-111: the bar's minute; ts is in milliseconds
MinuteIso(ts) == ((ts \div 1000) \div 60) * 60

FeedKinds == {"no_ltp", "bad_bar", "ok"}

\* what strategy_engine.evaluate does: returns None, returns a decision whose
\* state is PREPARE_* or EXECUTE_*, or raises
EvalOutcomes == {"none", "PREPARE", "EXECUTE", "raise"}

SetAt(f, k, v) == [x \in DOMAIN f \cup {k} |-> IF x = k THEN v ELSE f[x]]

\* the loop body with the `if not candle_5m_closed: continue` left out
ProcessFeedAlwaysEvaluate(st, inst, feed, ev) ==
    IF st.aborted \/ feed.kind # "ok" THEN st
    ELSE IF inst \in DOMAIN st.last_bar_time /\ st.last_bar_time[inst] = feed.ts
    THEN st
    ELSE
      LET minute_iso == MinuteIso(feed.ts)
          bar == MakeBar(minute_iso, feed.close, feed.high, feed.low, feed.close, feed.vol)
          u == BuilderUpdate(st.buffers, st.last_5m_time, inst, minute_iso,
                             feed.close, feed.high, feed.low, feed.close, feed.vol)
          s1 == [st EXCEPT !.last_bar_time = SetAt(@, inst, feed.ts),
                           !.bars = StoreAppend(@, inst, bar, max_len),
                           !.bars_closed = @ + 1,
                           !.arrived[inst] = Append(@, bar),
                           !.buffers = u.buffers,
                           !.last_5m_time = u.last_5m_time,
                           !.prevFed[inst] = <<minute_iso>>,
                           !.retLog[inst] = Append(@, u.ret)]
          s2 == [s1 EXCEPT !.evals[inst] = @ + 1]
      IN IF ev = "raise" THEN [s2 EXCEPT !.aborted = TRUE]
         ELSE IF ev # "EXECUTE" THEN s2
         ELSE IF inst \in s2.signals_today[today]
         THEN [s2 EXCEPT !.executes[<<inst, today>>] = @ + 1]
         ELSE [s2 EXCEPT !.signals_today[today] = @ \cup {inst},
                         !.entries[<<inst, today>>] = @ + 1,
                         !.executes[<<inst, today>>] = @ + 1]

\* the loop body without the test of the timestamp seen last (lines 104-106)
ProcessFeedRepeated(st, inst, feed, ev) ==
    IF st.aborted \/ feed.kind # "ok" THEN st          \* lines 82-102: continue
    ELSE
      LET minute_iso == MinuteIso(feed.ts)
          bar == MakeBar(minute_iso, feed.close, feed.high, feed.low, feed.close, feed.vol)
          u == BuilderUpdate(st.buffers, st.last_5m_time, inst, minute_iso,
                             feed.close, feed.high, feed.low, feed.close, feed.vol)
          s1 == [st EXCEPT !.last_bar_time = SetAt(@, inst, feed.ts),
                           !.bars = StoreAppend(@, inst, bar, max_len),
                           !.bars_closed = @ + 1,
                           !.arrived[inst] = Append(@, bar),
                           !.buffers = u.buffers,
                           !.last_5m_time = u.last_5m_time,
                           !.prevFed[inst] = <<minute_iso>>,
                           !.retLog[inst] = Append(@, u.ret)]
      IN IF ~u.ret THEN s1                             \* lines 140-141
         ELSE
           LET s2 == [s1 EXCEPT !.evals[inst] = @ + 1] \* line 146
           IN IF ev = "raise" THEN [s2 EXCEPT !.aborted = TRUE]
              ELSE IF ev # "EXECUTE" THEN s2           \* lines 148-151
              ELSE IF inst \in s2.signals_today[today]
              THEN [s2 EXCEPT !.executes[<<inst, today>>] = @ + 1]
              ELSE [s2 EXCEPT !.signals_today[today] = @ \cup {inst},
                              !.entries[<<inst, today>>] = @ + 1,
                              !.executes[<<inst, today>>] = @ + 1]

\* the loop body without the test of signals_today (lines 152-153)
ProcessFeedEveryExecute(st, inst, feed, ev) ==
    IF st.aborted \/ feed.kind # "ok" THEN st          \* lines 82-102: continue
    ELSE IF inst \in DOMAIN st.last_bar_time /\ st.last_bar_time[inst] = feed.ts
    THEN st                                            \* lines 104-106
    ELSE
      LET minute_iso == MinuteIso(feed.ts)
          bar == MakeBar(minute_iso, feed.close, feed.high, feed.low, feed.close, feed.vol)
          u == BuilderUpdate(st.buffers, st.last_5m_time, inst, minute_iso,
                             feed.close, feed.high, feed.low, feed.close, feed.vol)
          s1 == [st EXCEPT !.last_bar_time = SetAt(@, inst, feed.ts),
                           !.bars = StoreAppend(@, inst, bar, max_len),
                           !.bars_closed = @ + 1,
                           !.arrived[inst] = Append(@, bar),
                           !.buffers = u.buffers,
                           !.last_5m_time = u.last_5m_time,
                           !.prevFed[inst] = <<minute_iso>>,
                           !.retLog[inst] = Append(@, u.ret)]
      IN IF ~u.ret THEN s1                             \* lines 140-141
         ELSE
           LET s2 == [s1 EXCEPT !.evals[inst] = @ + 1] \* line 146
           IN IF ev = "raise" THEN [s2 EXCEPT !.aborted = TRUE]
              ELSE IF ev # "EXECUTE" THEN s2           \* lines 148-151
              ELSE [s2 EXCEPT !.signals_today[today] = @ \cup {inst},
                              !.entries[<<inst, today>>] = @ + 1,
                              !.executes[<<inst, today>>] = @ + 1]

\* market_streamer.py:79-156, one iteration of `for inst_key, feed_info in
\* feeds.items()` on the state st; ev is what evaluate does if it is called
ProcessFeed(st, inst, feed, ev) ==
    IF st.aborted \/ feed.kind # "ok" THEN st          \* lines 82-102: continue
    ELSE IF inst \in DOMAIN st.last_bar_time /\ st.last_bar_time[inst] = feed.ts
    THEN st                                            \* lines 104-106
    ELSE
      LET minute_iso == MinuteIso(feed.ts)
          bar == MakeBar(minute_iso, feed.close, feed.high, feed.low, feed.close, feed.vol)
          u == BuilderUpdate(st.buffers, st.last_5m_time, inst, minute_iso,
                             feed.close, feed.high, feed.low, feed.close, feed.vol)
          s1 == [st EXCEPT !.last_bar_time = SetAt(@, inst, feed.ts),
                           !.bars = StoreAppend(@, inst, bar, max_len),
                           !.bars_closed = @ + 1,
                           !.arrived[inst] = Append(@, bar),
                           !.buffers = u.buffers,
                           !.last_5m_time = u.last_5m_time,
                           !.prevFed[inst] = <<minute_iso>>,
                           !.retLog[inst] = Append(@, u.ret)]
      IN IF ~u.ret THEN s1                             \* lines 140-141
         ELSE
           LET s2 == [s1 EXCEPT !.evals[inst] = @ + 1] \* line 146
           IN IF ev = "raise" THEN [s2 EXCEPT !.aborted = TRUE]
              ELSE IF ev # "EXECUTE" THEN s2           \* lines 148-151
              ELSE IF inst \in s2.signals_today[today]
              THEN [s2 EXCEPT !.executes[<<inst, today>>] = @ + 1]
              ELSE [s2 EXCEPT !.signals_today[today] = @ \cup {inst},
                              !.entries[<<inst, today>>] = @ + 1,
                              !.executes[<<inst, today>>] = @ + 1]

RECURSIVE ProcessFeeds(_, _, _, _, _)
ProcessFeeds(st, order, feeds, ev, i) ==
    IF i > Len(order) THEN st
    ELSE ProcessFeeds(ProcessFeed(st, order[i], feeds[order[i]], ev), order, feeds, ev, i + 1)

\* on_message(message): feeds maps the instruments of the message, listed in
\* `order`, to their feed; the whole handler
OnMessage(order, feeds, ev) ==
    LET st0 == [bars |-> bars, bars_closed |-> bars_closed, arrived |-> arrived,
                buffers |-> buffers, last_5m_time |-> last_5m_time,
                prevFed |-> prevFed, retLog |-> retLog,
                last_bar_time |-> last_bar_time,
                signals_today |->                      \* lines 74-75
                    IF today \in DOMAIN signals_today THEN signals_today
                    ELSE SetAt(signals_today, today, {}),
                evals |-> evals, executes |-> executes, entries |-> entries,
                aborted |-> FALSE]
        st == ProcessFeeds(st0, order, feeds, ev, 1)
    IN /\ bars' = st.bars
       /\ bars_closed' = st.bars_closed
       /\ arrived' = st.arrived
       /\ buffers' = st.buffers
       /\ last_5m_time' = st.last_5m_time
       /\ prevFed' = st.prevFed
       /\ retLog' = st.retLog
       /\ fedLog' = fedLog
       /\ last_bar_time' = st.last_bar_time
       /\ signals_today' = st.signals_today
       /\ evals' = st.evals
       /\ executes' = st.executes
       /\ entries' = st.entries
       /\ msgs' = msgs + 1
       /\ UNCHANGED <<max_len, on_bar_close_callbacks, lastCall, today, alertVars, dedupeVars, snapVars, thrVars, fsVars, aliasVars, decVars, vwapVars>>

\* midnight passes
NextDay ==
    /\ today + 1 \in Days
    /\ today' = today + 1
    /\ UNCHANGED <<storeVars, aggVars, thrVars, fsVars, aliasVars, decVars, vwapVars, signals_today, last_bar_time, evals, executes, entries, msgs,
                   alertVars, dedupeVars, snapVars>>

\* market_streamer.py:48-49
InitStream ==
    /\ signals_today = <<>>
    /\ last_bar_time = <<>>
    /\ today = 1
    /\ evals = [i \in Insts |-> 0]
    /\ executes = [k \in Insts \X Days |-> 0]
    /\ entries = [k \in Insts \X Days |-> 0]
    /\ msgs = 0

(***************************************************************************)
(* MarketScanner: alert throttling                                         *)
(***************************************************************************)
\* a cooldown test that still throttles when exactly cooldown_seconds elapsed
CanEmitAlertStrict(paused, last, inst, cooldown_seconds, now_ts) ==
    IF inst \in DOMAIN paused /\ paused[inst] # 0 /\ now_ts < paused[inst]
    THEN FALSE
    ELSE IF inst \notin DOMAIN last THEN TRUE
    ELSE (now_ts - last[inst]) > cooldown_seconds

\* MarketScanner.can_emit_alert on the maps paused (_paused_until) and last
\* (last_alert_time) at time now_ts
CanEmitAlertValue(paused, last, inst, cooldown_seconds, now_ts) ==
    IF inst \in DOMAIN paused /\ paused[inst] # 0 /\ now_ts < paused[inst]
    THEN FALSE                                  \* lines 193-195
    ELSE IF inst \notin DOMAIN last THEN TRUE    \* lines 197-199
    ELSE (now_ts - last[inst]) >= cooldown_seconds

\* a call of can_emit_alert
CanEmitAlert(inst, cooldown_seconds) ==
    /\ canRes' = [inst |-> inst, cooldown |-> cooldown_seconds, at |-> now,
                  ret |-> CanEmitAlertValue(paused_until, last_alert_time, inst,
                                            cooldown_seconds, now)]
    /\ UNCHANGED <<storeVars, aggVars, streamVars, thrVars, fsVars, aliasVars, decVars, vwapVars, dedupeVars, snapVars,
                   last_alert_time, dedupe_map, paused_until, now>>

\* MarketScanner.mark_alert_emitted
MarkAlertEmitted(inst) ==
    /\ last_alert_time' = SetAt(last_alert_time, inst, now)
    /\ UNCHANGED <<storeVars, aggVars, streamVars, thrVars, fsVars, aliasVars, decVars, vwapVars, dedupeVars, snapVars,
                   dedupe_map, paused_until, now, canRes>>

\* MarketScanner.mark_instrument_paused
MarkInstrumentPaused(inst, until_ts) ==
    /\ paused_until' = SetAt(paused_until, inst, until_ts)
    /\ UNCHANGED <<storeVars, aggVars, streamVars, thrVars, fsVars, aliasVars, decVars, vwapVars, dedupeVars, snapVars,
                   last_alert_time, dedupe_map, now, canRes>>

\* time passes
Tick ==
    /\ now < MaxNow
    /\ now' = now + 1
    /\ UNCHANGED <<storeVars, aggVars, streamVars, thrVars, fsVars, aliasVars, decVars, vwapVars, dedupeVars, snapVars,
                   last_alert_time, dedupe_map, paused_until, canRes>>

\* dict.get of the inner map: <<>> stands for None
DedupeGet(m, inst, direction) ==
    IF inst \in DOMAIN m /\ direction \in DOMAIN m[inst]
    THEN <<m[inst][direction]>> ELSE <<>>

\* dedupe_alert, lines 212-213: now_ts = time.time();
\* last = self._dedupe_map[inst].get(direction); the defaultdict creates
\* the instrument's inner map when it is missing
DedupeBegin(t, inst, direction, window_seconds) ==
    /\ dpc[t] = "idle"
    /\ dedupe_map' = IF inst \in DOMAIN dedupe_map THEN dedupe_map
                      ELSE SetAt(dedupe_map, inst, <<>>)
    /\ dloc' = [dloc EXCEPT ![t] = [inst |-> inst, direction |-> direction,
                                    window |-> window_seconds, now_ts |-> now,
                                    last |-> DedupeGet(dedupe_map, inst, direction),
                                    ret |-> FALSE]]
    /\ dpc' = [dpc EXCEPT ![t] = "check"]
    /\ overlap' = (overlap \/ \E u \in Callers \ {t} : dpc[u] = "check")
    /\ UNCHANGED <<storeVars, aggVars, streamVars, thrVars, fsVars, aliasVars, decVars, vwapVars, snapVars,
                   last_alert_time, paused_until, now, canRes>>

\* dedupe_alert, lines 215-219: the test on the value read, then the write
DedupeFinish(t) ==
    LET l == dloc[t]
        dup == l.last # <<>> /\ l.last[1] # 0 /\ (l.now_ts - l.last[1]) < l.window
    IN /\ dpc[t] = "check"
       /\ dedupe_map' = IF dup THEN dedupe_map
                         ELSE [dedupe_map EXCEPT ![l.inst] = SetAt(@, l.direction, l.now_ts)]
       /\ dloc' = [dloc EXCEPT ![t].ret = dup]
       /\ dpc' = [dpc EXCEPT ![t] = "done"]
       /\ UNCHANGED <<storeVars, aggVars, streamVars, thrVars, fsVars, aliasVars, decVars, vwapVars, snapVars, overlap,
                      last_alert_time, paused_until, now, canRes>>

NoCanRes == [inst |-> None, cooldown |-> 0, at |-> 0, ret |-> FALSE]

NoDedupe ==
    [inst |-> None, direction |-> None, window |-> 0, now_ts |-> 0, last |-> <<>>,
     ret |-> FALSE]

\* scanner.py:47-49; the clock starts at a positive time
InitAlert ==
    /\ last_alert_time = <<>>
    /\ dedupe_map = <<>>
    /\ paused_until = <<>>
    /\ now = 1
    /\ canRes = NoCanRes
    /\ dpc = [t \in Callers |-> "idle"]
    /\ dloc = [t \in Callers |-> NoDedupe]
    /\ overlap = FALSE

(***************************************************************************)
(* MarketScanner: snapshots                                                *)
(***************************************************************************)
\* A file holds text.  Its content is modelled by what json.load makes of it:
\*   kind "garbage"  no JSON at all (json.load raises JSONDecodeError)
\*   kind "array"    JSON, but not an object (data.get raises AttributeError)
\*   kind "object"   a JSON object with the top-level keys `has`; "bars" is
\*                   the ordered list of its entries, an entry being not ok
\*                   when its value is no array (deque(5) raises TypeError)
\* writer tells who wrote the file: save_snapshot or something else.
SnapKeys == {"bars", "last_alert_time", "dedupe_map", "paused_until"}

InstOrder == <<"A", "B">>

SnapPath == "snap.json"

\* save_snapshot, lines 233-247: what json.dump writes for the state; the
\* instruments are listed in the order InstOrder
Dump(b, lat, dm, pu) ==
    LET Present(i) == i \in DOMAIN b
        sel == SelectSeq(InstOrder, Present)
    IN [kind |-> "object", writer |-> "save", has |-> SnapKeys,
        bars |-> [k \in 1..Len(sel) |-> [inst |-> sel[k], ok |-> TRUE, items |-> b[sel[k]]]],
        last_alert_time |-> lat, dedupe_map |-> dm, paused_until |-> pu]

\* the state a snapshot file describes
Decode(content) ==
    [bars |-> [i \in {content.bars[k].inst : k \in 1..Len(content.bars)} |->
                  LET k == CHOOSE k \in 1..Len(content.bars) : content.bars[k].inst = i
                  IN content.bars[k].items],
     last_alert_time |-> content.last_alert_time,
     dedupe_map |-> content.dedupe_map,
     paused_until |-> content.paused_until]

Memory == [bars |-> bars, last_alert_time |-> last_alert_time,
           dedupe_map |-> dedupe_map, paused_until |-> paused_until]

\* load_snapshot, lines 260-261: the loop over data["bars"]; it stops at the
\* first entry deque() cannot take
RECURSIVE LoadBars(_, _, _, _)
LoadBars(b, ents, i, maxlen) ==
    IF i > Len(ents) THEN [bars |-> b, raised |-> FALSE]
    ELSE IF ~ents[i].ok THEN [bars |-> b, raised |-> TRUE]
    ELSE LoadBars(SetAt(b, ents[i].inst, DequeFrom(ents[i].items, maxlen)),
                  ents, i + 1, maxlen)

\* MarketScanner.save_snapshot(path), the whole call on one thread: the
\* temporary file is written and renamed onto path
SaveSnapshot ==
    /\ files' = SetAt(files, SnapPath,
                      Dump(bars, last_alert_time, dedupe_map, paused_until))
    /\ UNCHANGED <<storeVars, aggVars, streamVars, thrVars, fsVars, aliasVars, decVars, vwapVars, alertVars, dedupeVars, loadRes>>

FileState(fs) ==
    IF SnapPath \notin DOMAIN fs THEN "missing"
    ELSE IF \/ fs[SnapPath].kind # "object"
            \/ fs[SnapPath].has # SnapKeys
            \/ \E k \in 1..Len(fs[SnapPath].bars) : ~fs[SnapPath].bars[k].ok
         THEN "corrupt"
    ELSE "wellformed"

\* MarketScanner.load_snapshot(path), the whole call on one thread
LoadSnapshot ==
    LET c == files[SnapPath]
        lb == LoadBars(bars, IF "bars" \in c.has THEN c.bars ELSE <<>>, 1, max_len)
        Res(r) == [file |-> FileState(files), ret |-> r, pre |-> Memory,
                   post |-> Memory', writer |-> IF SnapPath \in DOMAIN files
                                                THEN c.writer ELSE None,
                   expect |-> IF FileState(files) = "wellformed"
                              THEN Decode(c) ELSE Memory]
    IN IF SnapPath \notin DOMAIN files                         \* lines 253-254
       THEN /\ UNCHANGED <<bars, last_alert_time, dedupe_map, paused_until>>
            /\ loadRes' = Res("False")
            /\ UNCHANGED <<max_len, bars_closed, on_bar_close_callbacks, arrived,
                           lastCall, now, canRes, files,
                           aggVars, streamVars, thrVars, fsVars, aliasVars, decVars, vwapVars, dedupeVars>>
       ELSE IF c.kind # "object"                                \* lines 256-260
       THEN /\ UNCHANGED <<bars, last_alert_time, dedupe_map, paused_until>>
            /\ loadRes' = Res("raise")
            /\ UNCHANGED <<max_len, bars_closed, on_bar_close_callbacks, arrived,
                           lastCall, now, canRes, files,
                           aggVars, streamVars, thrVars, fsVars, aliasVars, decVars, vwapVars, dedupeVars>>
       ELSE IF lb.raised                                        \* line 261 raises
       THEN /\ bars' = lb.bars
            /\ UNCHANGED <<last_alert_time, dedupe_map, paused_until>>
            /\ loadRes' = Res("raise")
            /\ UNCHANGED <<max_len, bars_closed, on_bar_close_callbacks, arrived,
                           lastCall, now, canRes, files,
                           aggVars, streamVars, thrVars, fsVars, aliasVars, decVars, vwapVars, dedupeVars>>
       ELSE /\ bars' = lb.bars                                  \* lines 260-267
            /\ last_alert_time' =
                  IF "last_alert_time" \in c.has THEN c.last_alert_time ELSE <<>>
            /\ dedupe_map' = IF "dedupe_map" \in c.has THEN c.dedupe_map ELSE <<>>
            /\ paused_until' = IF "paused_until" \in c.has THEN c.paused_until ELSE <<>>
            /\ loadRes' = Res("True")
            /\ UNCHANGED <<max_len, bars_closed, on_bar_close_callbacks, arrived,
                           lastCall, now, canRes, files,
                           aggVars, streamVars, thrVars, fsVars, aliasVars, decVars, vwapVars, dedupeVars>>

\* files that save_snapshot did not write
OtherFile(kind, has, ents) ==
    [kind |-> kind, writer |-> "other", has |-> has, bars |-> ents,
     last_alert_time |-> <<>>, dedupe_map |-> <<>>, paused_until |-> <<>>]

DamagedFiles ==
    { OtherFile("garbage", {}, <<>>),                    \* not JSON
      OtherFile("array", {}, <<>>),                      \* []
      OtherFile("object", {}, <<>>),                     \* {}
      OtherFile("object", SnapKeys,                      \* {"bars": {"A": [], "B": 5}, ...}
                <<[inst |-> "A", ok |-> TRUE, items |-> <<>>],
                  [inst |-> "B", ok |-> FALSE, items |-> <<>>]>>) }

\* something other than the store replaces the snapshot file
WriteFile(content) ==
    /\ files' = SetAt(files, SnapPath, content)
    /\ UNCHANGED <<storeVars, aggVars, streamVars, thrVars, fsVars, aliasVars, decVars, vwapVars, alertVars, dedupeVars, loadRes>>

NoLoad ==
    [file |-> None, ret |-> None, pre |-> None, post |-> None, writer |-> None,
     expect |-> None]

InitSnap ==
    /\ files = <<>>
    /\ loadRes = NoLoad

Init0 == InitStore /\ InitAgg /\ InitStream /\ InitAlert /\ InitSnap

(***************************************************************************)
(* MarketScanner under concurrent callers                                  *)
(*                                                                         *)
(* A thread switch can happen between any two bytecodes, so every read or  *)
(* write of shared state and every lock operation is a step of its own.    *)
(* threading.Lock is not reentrant: acquiring waits while anyone holds it, *)
(* the caller included.                                                    *)
(***************************************************************************)
NoLoc ==
    [op |-> None, inst |-> None, blist |-> <<>>, k |-> 0, cc |-> FALSE,
     cbs |-> <<>>, ci |-> 0, tmp |-> 0, todo |-> <<>>, data |-> <<>>,
     seen |-> {}, ret |-> <<>>]

SavePcs == {"s_lock", "s_copy", "s_write"}

\* bars has become b: the saves in progress have seen the store hold b
AddSeen(l, b) ==
    [u \in Threads |->
        IF pc[u] \in SavePcs THEN [l[u] EXCEPT !.seen = @ \cup {b}] ELSE l[u]]

CurBar(t) == loc[t].blist[loc[t].k].bar

\* append_ohlc_bar(inst, ...) is called
StartAppend(t, inst, bar) ==
    /\ pc[t] = "idle"
    /\ ops < MaxOps
    /\ ops' = ops + 1
    /\ loc' = [loc EXCEPT ![t] = [NoLoc EXCEPT !.op = "append", !.inst = inst,
                                   !.blist = <<[ok |-> TRUE, bar |-> bar]>>, !.k = 1]]
    /\ pc' = [pc EXCEPT ![t] = "ensure"]
    /\ UNCHANGED <<storeVars, aggVars, streamVars, alertVars, dedupeVars, snapVars, fsVars, aliasVars, decVars, vwapVars,
                   global_lock, locks, replay_mode, lastSave>>

\* replay_bars(inst, bars, call_callbacks) is called; line 279
StartReplay(t, inst, blist, call_callbacks) ==
    /\ pc[t] = "idle"
    /\ ops < MaxOps
    /\ ops' = ops + 1
    /\ replay_mode' = TRUE
    /\ loc' = [loc EXCEPT ![t] = [NoLoc EXCEPT !.op = "replay", !.inst = inst,
                                   !.blist = blist, !.k = 1,
                                   !.cc = call_callbacks]]
    /\ pc' = [pc EXCEPT ![t] = "ensure"]
    /\ UNCHANGED <<storeVars, aggVars, streamVars, alertVars, dedupeVars, snapVars, fsVars, aliasVars, decVars, vwapVars,
                   global_lock, locks, lastSave>>

\* _ensure_inst, line 66: with self._global_lock
EnsureAcquire(t) ==
    /\ pc[t] = "ensure"
    /\ global_lock = None
    /\ global_lock' = t
    /\ pc' = [pc EXCEPT ![t] = "ensure_in"]
    /\ UNCHANGED <<storeVars, aggVars, streamVars, alertVars, dedupeVars, snapVars, fsVars, aliasVars, decVars, vwapVars,
                   loc, locks, replay_mode, ops, lastSave>>

\* _ensure_inst, lines 67-68, and the release of the global lock
EnsureBody(t) ==
    /\ pc[t] = "ensure_in"
    /\ bars' = EnsureInst(bars, loc[t].inst)
    /\ global_lock' = None
    /\ loc' = AddSeen(loc, bars')
    /\ pc' = [pc EXCEPT ![t] = "lock"]
    /\ UNCHANGED <<max_len, bars_closed, on_bar_close_callbacks, arrived, lastCall,
                   aggVars, streamVars, alertVars, dedupeVars, snapVars, fsVars, aliasVars, decVars, vwapVars,
                   locks, replay_mode, ops, lastSave>>

\* lines 102 and 282: with self._lock_for(inst)
LockAcquire(t) ==
    /\ pc[t] = "lock"
    /\ locks[loc[t].inst] = None
    /\ locks' = [locks EXCEPT ![loc[t].inst] = t]
    /\ pc' = [pc EXCEPT ![t] = IF loc[t].op = "append" THEN "append" ELSE "bar"]
    /\ UNCHANGED <<storeVars, aggVars, streamVars, alertVars, dedupeVars, snapVars, fsVars, aliasVars, decVars, vwapVars,
                   loc, global_lock, replay_mode, ops, lastSave>>

\* replay_bars, lines 283-285 and 297: the head of `for bar in bars`
ReplayNext(t) ==
    /\ pc[t] = "bar"
    /\ IF loc[t].k > Len(loc[t].blist)
       THEN /\ locks' = [locks EXCEPT ![loc[t].inst] = None]
            /\ replay_mode' = FALSE
            /\ pc' = [pc EXCEPT ![t] = "idle"]
            /\ UNCHANGED loc
       ELSE IF ~loc[t].blist[loc[t].k].ok
       THEN /\ loc' = [loc EXCEPT ![t].k = @ + 1]
            /\ UNCHANGED <<locks, replay_mode, pc>>
       ELSE /\ pc' = [pc EXCEPT ![t] = "append"]
            /\ UNCHANGED <<locks, replay_mode, loc>>
    /\ UNCHANGED <<storeVars, aggVars, streamVars, alertVars, dedupeVars, snapVars, fsVars, aliasVars, decVars, vwapVars,
                   global_lock, ops, lastSave>>

\* lines 103 and 287: self._bars[inst].append(bar)
DoAppend(t) ==
    /\ pc[t] = "append"
    /\ bars' = [bars EXCEPT ![loc[t].inst] = DequeAppend(@, CurBar(t), max_len)]
    /\ arrived' = [arrived EXCEPT ![loc[t].inst] = Append(@, CurBar(t))]
    /\ loc' = AddSeen(loc, bars')
    /\ pc' = [pc EXCEPT ![t] = "load"]
    /\ UNCHANGED <<max_len, bars_closed, on_bar_close_callbacks, lastCall,
                   aggVars, streamVars, alertVars, dedupeVars, snapVars, fsVars, aliasVars, decVars, vwapVars,
                   global_lock, locks, replay_mode, ops, lastSave>>

\* lines 104 and 288, self.bars_closed += 1: the read of the counter
CountLoad(t) ==
    /\ pc[t] = "load"
    /\ loc' = [loc EXCEPT ![t].tmp = bars_closed]
    /\ pc' = [pc EXCEPT ![t] = "store"]
    /\ UNCHANGED <<storeVars, aggVars, streamVars, alertVars, dedupeVars, snapVars, fsVars, aliasVars, decVars, vwapVars,
                   global_lock, locks, replay_mode, ops, lastSave>>

\* self.bars_closed += 1: the write; then append_ohlc_bar leaves the lock
\* and copies the registry (line 107), while replay_bars keeps the lock and
\* copies the registry only if call_callbacks (lines 290-291)
CountStore(t) ==
    /\ pc[t] = "store"
    /\ bars_closed' = loc[t].tmp + 1
    /\ IF loc[t].op = "append"
       THEN /\ locks' = [locks EXCEPT ![loc[t].inst] = None]
            /\ loc' = [loc EXCEPT ![t].cbs = on_bar_close_callbacks, ![t].ci = 1]
            /\ pc' = [pc EXCEPT ![t] = "cbs"]
       ELSE IF loc[t].cc
       THEN /\ loc' = [loc EXCEPT ![t].cbs = on_bar_close_callbacks, ![t].ci = 1]
            /\ pc' = [pc EXCEPT ![t] = "cbs"]
            /\ UNCHANGED locks
       ELSE /\ loc' = [loc EXCEPT ![t].k = @ + 1]
            /\ pc' = [pc EXCEPT ![t] = "bar"]
            /\ UNCHANGED locks
    /\ UNCHANGED <<max_len, bars, on_bar_close_callbacks, arrived, lastCall,
                   aggVars, streamVars, alertVars, dedupeVars, snapVars, fsVars, aliasVars, decVars, vwapVars,
                   global_lock, replay_mode, ops, lastSave>>

\* What a callback does in a thread: returns, raises, or reads the history of
\* the instrument it was called for (get_last_n_bars(inst, 1)).
CbBehaviours == {"ok", "raise", "read"}

\* lines 107-111 and 291-295: the next callback of the copy is called
CbInvoke(t, behaviour) ==
    /\ pc[t] = "cbs"
    /\ loc[t].ci <= Len(loc[t].cbs)
    /\ IF behaviour = "read"
       THEN /\ pc' = [pc EXCEPT ![t] = "cb_read"]
            /\ UNCHANGED loc
       ELSE /\ loc' = [loc EXCEPT ![t].ci = @ + 1]      \* an Exception is swallowed
            /\ UNCHANGED pc
    /\ UNCHANGED <<storeVars, aggVars, streamVars, alertVars, dedupeVars, snapVars, fsVars, aliasVars, decVars, vwapVars,
                   global_lock, locks, replay_mode, ops, lastSave>>

\* inside the callback, get_last_n_bars(inst, 1), lines 144-145: it takes
\* the instrument's lock, copies and releases
CbRead(t) ==
    /\ pc[t] = "cb_read"
    /\ locks[loc[t].inst] = None
    /\ loc' = [loc EXCEPT ![t].ci = @ + 1]
    /\ pc' = [pc EXCEPT ![t] = "cbs"]
    /\ UNCHANGED <<storeVars, aggVars, streamVars, alertVars, dedupeVars, snapVars, fsVars, aliasVars, decVars, vwapVars,
                   global_lock, locks, replay_mode, ops, lastSave>>

\* the dispatch loop is over: append_ohlc_bar returns (line 113), replay_bars
\* goes on with its next bar
CbDone(t) ==
    /\ pc[t] = "cbs"
    /\ loc[t].ci > Len(loc[t].cbs)
    /\ IF loc[t].op = "append"
       THEN /\ pc' = [pc EXCEPT ![t] = "idle"]
            /\ UNCHANGED loc
       ELSE /\ loc' = [loc EXCEPT ![t].k = @ + 1]
            /\ pc' = [pc EXCEPT ![t] = "bar"]
    /\ UNCHANGED <<storeVars, aggVars, streamVars, alertVars, dedupeVars, snapVars, fsVars, aliasVars, decVars, vwapVars,
                   global_lock, locks, replay_mode, ops, lastSave>>

\* get_last_n_bars(inst, n), lines 142-143: an unknown instrument gives []
\* at once
StartGet(t, inst) ==
    /\ pc[t] = "idle"
    /\ ops < MaxOps
    /\ ops' = ops + 1
    /\ loc' = [loc EXCEPT ![t] = [NoLoc EXCEPT !.op = "get", !.inst = inst]]
    /\ pc' = [pc EXCEPT ![t] = IF inst \in DOMAIN bars THEN "g_lock" ELSE "idle"]
    /\ UNCHANGED <<storeVars, aggVars, streamVars, alertVars, dedupeVars, snapVars, fsVars, aliasVars, decVars, vwapVars,
                   global_lock, locks, replay_mode, lastSave>>

\* get_last_n_bars(inst, 1), lines 144-145
GetRead(t) ==
    /\ pc[t] = "g_lock"
    /\ locks[loc[t].inst] = None
    /\ loc' = [loc EXCEPT ![t].ret = LastN(bars[loc[t].inst], 1)]
    /\ pc' = [pc EXCEPT ![t] = "idle"]
    /\ UNCHANGED <<storeVars, aggVars, streamVars, alertVars, dedupeVars, snapVars, fsVars, aliasVars, decVars, vwapVars,
                   global_lock, locks, replay_mode, ops, lastSave>>

\* save_snapshot(path) is called; lines 229-239
StartSave(t) ==
    /\ pc[t] = "idle"
    /\ ops < MaxOps
    /\ ops' = ops + 1
    /\ loc' = [loc EXCEPT ![t] = [NoLoc EXCEPT !.op = "save", !.seen = {bars}]]
    /\ pc' = [pc EXCEPT ![t] = "s_lock"]
    /\ UNCHANGED <<storeVars, aggVars, streamVars, alertVars, dedupeVars, snapVars, fsVars, aliasVars, decVars, vwapVars,
                   global_lock, locks, replay_mode, lastSave>>

\* line 241: with self._global_lock; line 242 starts the iteration over the
\* instruments the store holds, here in the order InstOrder
SaveAcquire(t) ==
    LET Present(i) == i \in DOMAIN bars
    IN /\ pc[t] = "s_lock"
       /\ global_lock = None
       /\ global_lock' = t
       /\ loc' = [loc EXCEPT ![t].todo = SelectSeq(InstOrder, Present)]
       /\ pc' = [pc EXCEPT ![t] = "s_copy"]
       /\ UNCHANGED <<storeVars, aggVars, streamVars, alertVars, dedupeVars, snapVars, fsVars, aliasVars, decVars, vwapVars,
                      locks, replay_mode, ops, lastSave>>

\* line 243: data["bars"][inst] = list(dq), one instrument per step; after
\* the last one the global lock is released
SaveCopy(t) ==
    /\ pc[t] = "s_copy"
    /\ IF loc[t].todo = <<>>
       THEN /\ global_lock' = None
            /\ pc' = [pc EXCEPT ![t] = "s_write"]
            /\ UNCHANGED loc
       ELSE /\ loc' = [loc EXCEPT
                         ![t].data = SetAt(@, Head(loc[t].todo), bars[Head(loc[t].todo)]),
                         ![t].todo = Tail(@)]
            /\ UNCHANGED <<global_lock, pc>>
    /\ UNCHANGED <<storeVars, aggVars, streamVars, alertVars, dedupeVars, snapVars, fsVars, aliasVars, decVars, vwapVars,
                   locks, replay_mode, ops, lastSave>>

\* lines 245-249: json.dump of the copied histories and of the alert maps as
\* they are now, into the temporary file, which is renamed onto the path
SaveWrite(t) ==
    /\ pc[t] = "s_write"
    /\ files' = SetAt(files, SnapPath,
                      Dump(loc[t].data, last_alert_time, dedupe_map, paused_until))
    /\ lastSave' = [done |-> TRUE, snap |-> loc[t].data, seen |-> loc[t].seen]
    /\ pc' = [pc EXCEPT ![t] = "idle"]
    /\ UNCHANGED <<storeVars, aggVars, streamVars, alertVars, dedupeVars, loadRes,
                   loc, global_lock, locks, replay_mode, ops,
                   fsVars, aliasVars, decVars, vwapVars>>

(***************************************************************************)
(* save_snapshot and the file system                                       *)
(*                                                                         *)
(* A path names a file; open(tmp, "w") empties the file the path names, or *)
(* makes a new one; a thread writes into the file it opened, whatever path *)
(* names that file by then; os.replace makes the target path name the file *)
(* the temporary path named.  json.dump reaches the file in two writes,    *)
(* the second when the file is closed.                                     *)
(***************************************************************************)
TmpPath == "snap.json.tmp"

\* a file just opened for writing: neither half of a text is there
EmptyFile == <<<<>>, <<>>>>

\* what a reader finds in a file: the text, if both halves of one text are
\* there, and otherwise something json.load cannot parse
TextOf(c) ==
    IF c[1] # <<>> /\ c[1] = c[2] THEN c[1][1]
    ELSE [kind |-> "garbage", writer |-> "save", has |-> {}, bars |-> <<>>,
          last_alert_time |-> <<>>, dedupe_map |-> <<>>, paused_until |-> <<>>]

\* path -> content, as the snapshot calls see the file system
FilesOf(d, ino) == [p \in DOMAIN d |-> TextOf(ino[d[p]])]

\* save_snapshot, lines 229-243: the data is collected
FsCollect(t) ==
    /\ pc[t] = "idle"
    /\ ops < MaxOps
    /\ ops' = ops + 1
    /\ loc' = [loc EXCEPT ![t] = [NoLoc EXCEPT !.op = "save", !.data = bars]]
    /\ pc' = [pc EXCEPT ![t] = "f_open"]
    /\ UNCHANGED <<storeVars, aggVars, streamVars, alertVars, dedupeVars, snapVars,
                   global_lock, locks, replay_mode, lastSave,
                   fsVars, aliasVars, decVars, vwapVars>>

\* line 246: open(tmp, "w")
FsOpen(t) ==
    /\ pc[t] = "f_open"
    /\ IF TmpPath \in DOMAIN dir
       THEN /\ inodes' = [inodes EXCEPT ![dir[TmpPath]] = EmptyFile]
            /\ fd' = [fd EXCEPT ![t] = dir[TmpPath]]
            /\ UNCHANGED dir
       ELSE /\ inodes' = Append(inodes, EmptyFile)
            /\ dir' = SetAt(dir, TmpPath, Len(inodes) + 1)
            /\ fd' = [fd EXCEPT ![t] = Len(inodes) + 1]
    /\ files' = FilesOf(dir', inodes')
    /\ pc' = [pc EXCEPT ![t] = "f_w1"]
    /\ UNCHANGED <<storeVars, aggVars, streamVars, alertVars, dedupeVars, loadRes,
                   loc, global_lock, locks, replay_mode, ops, lastSave,
                   aliasVars, decVars, vwapVars>>

\* line 247: json.dump(data, f), the first half of the text
FsWriteFirst(t) ==
    LET text == Dump(loc[t].data, last_alert_time, dedupe_map, paused_until)
    IN /\ pc[t] = "f_w1"
       /\ inodes' = [inodes EXCEPT ![fd[t]][1] = <<text>>]
       /\ loc' = [loc EXCEPT ![t].ret = <<text>>]
       /\ files' = FilesOf(dir, inodes')
       /\ pc' = [pc EXCEPT ![t] = "f_w2"]
       /\ UNCHANGED <<storeVars, aggVars, streamVars, alertVars, dedupeVars, loadRes,
                      global_lock, locks, replay_mode, ops, lastSave,
                      dir, fd, aliasVars, decVars, vwapVars>>

\* lines 246-247: the rest of the text, and the file is closed
FsWriteRest(t) ==
    /\ pc[t] = "f_w2"
    /\ inodes' = [inodes EXCEPT ![fd[t]][2] = loc[t].ret]
    /\ fd' = [fd EXCEPT ![t] = 0]
    /\ files' = FilesOf(dir, inodes')
    /\ pc' = [pc EXCEPT ![t] = "f_replace"]
    /\ UNCHANGED <<storeVars, aggVars, streamVars, alertVars, dedupeVars, loadRes,
                   loc, global_lock, locks, replay_mode, ops, lastSave,
                   dir, aliasVars, decVars, vwapVars>>

\* line 247 raises in the middle of the text (the disk is full, a value is
\* not serialisable): the with block closes the file and save_snapshot is left
FsWriteFails(t) ==
    /\ pc[t] = "f_w2"
    /\ fd' = [fd EXCEPT ![t] = 0]
    /\ pc' = [pc EXCEPT ![t] = "idle"]
    /\ UNCHANGED <<storeVars, aggVars, streamVars, alertVars, dedupeVars, snapVars,
                   loc, global_lock, locks, replay_mode, ops, lastSave,
                   dir, inodes, aliasVars, decVars, vwapVars>>

\* line 249: os.replace(tmp, path); FileNotFoundError if tmp is gone
FsReplace(t) ==
    /\ pc[t] = "f_replace"
    /\ IF TmpPath \in DOMAIN dir
       THEN dir' = [p \in (DOMAIN dir \ {TmpPath}) \cup {SnapPath} |->
                       IF p = SnapPath THEN dir[TmpPath] ELSE dir[p]]
       ELSE UNCHANGED dir
    /\ files' = FilesOf(dir', inodes)
    /\ pc' = [pc EXCEPT ![t] = "idle"]
    /\ UNCHANGED <<storeVars, aggVars, streamVars, alertVars, dedupeVars, loadRes,
                   loc, global_lock, locks, replay_mode, ops, lastSave,
                   inodes, fd, aliasVars, decVars, vwapVars>>

InitFs ==
    /\ dir = <<>>
    /\ inodes = <<>>
    /\ fd = [t \in Threads |-> 0]

(***************************************************************************)
(* MarketScanner: what the caller is handed                                *)
(*                                                                         *)
(* A bar is a dict, an object with an address.  The deque holds addresses; *)
(* list(dq) is a new list holding the same addresses, dict(d) is a new     *)
(* object with the same fields, a list of floats holds no object at all.   *)
(* bars is the history as the accessors read it through the addresses.     *)
(***************************************************************************)
BarFields == {"time", "open", "high", "low", "close", "volume"}

HistoryOf(r, h) == [i \in DOMAIN r |-> [k \in 1..Len(r[i]) |-> h[r[i][k]]]]

Handed(objs, vals) == [objs |-> objs, vals |-> vals, writes |-> held.writes]

\* append_ohlc_bar, lines 91-113: the dict built at line 93 is stored, passed
\* to the callbacks and returned
ObjAppend(inst, bar) ==
    LET r1 == EnsureInst(refs, inst)
        new == Len(heap) + 1
    IN /\ heap' = Append(heap, bar)
       /\ refs' = [r1 EXCEPT ![inst] = DequeAppend(r1[inst], new, max_len)]
       /\ bars' = HistoryOf(refs', heap')
       /\ bars_closed' = bars_closed + 1
       /\ arrived' = [arrived EXCEPT ![inst] = Append(@, bar)]
       /\ held' = Handed(<<new>>, <<>>)
       /\ UNCHANGED <<max_len, on_bar_close_callbacks, lastCall, aggVars, streamVars,
                      alertVars, dedupeVars, snapVars, thrVars, fsVars, decVars, vwapVars>>

\* get_last_n_bars(inst, n), lines 141-145
ObjGetLastNBars(inst, n) ==
    /\ held' = Handed(IF inst \in DOMAIN refs THEN LastN(refs[inst], n) ELSE <<>>, <<>>)
    /\ UNCHANGED <<storeVars, aggVars, streamVars, alertVars, dedupeVars, snapVars,
                   thrVars, fsVars, heap, refs, decVars, vwapVars>>

\* get_last_bar(inst), lines 147-151: None, or a new dict
ObjGetLastBar(inst) ==
    /\ IF inst \notin DOMAIN refs \/ refs[inst] = <<>>
       THEN /\ held' = Handed(<<>>, <<>>)
            /\ UNCHANGED heap
       ELSE /\ heap' = Append(heap, heap[refs[inst][Len(refs[inst])]])
            /\ held' = Handed(<<Len(heap) + 1>>, <<>>)
    /\ UNCHANGED <<storeVars, aggVars, streamVars, alertVars, dedupeVars, snapVars,
                   thrVars, fsVars, refs, decVars, vwapVars>>

\* get_prices, get_highs, get_lows, get_closes and get_volumes, lines 153-166:
\* a list of the field's values over get_last_n_bars(inst, max_len)
ObjGetValues(inst, field) ==
    LET got == IF inst \in DOMAIN refs THEN LastN(refs[inst], max_len) ELSE <<>>
    IN /\ held' = Handed(<<>>, [k \in 1..Len(got) |-> heap[got[k]][field]])
       /\ UNCHANGED <<storeVars, aggVars, streamVars, alertVars, dedupeVars, snapVars,
                      thrVars, fsVars, heap, refs, decVars, vwapVars>>

\* the caller assigns to a field of a bar it was handed: b[field] = v
CallerSetsField(k, field, v) ==
    /\ k \in 1..Len(held.objs)
    /\ heap' = [heap EXCEPT ![held.objs[k]][field] = v]
    /\ bars' = HistoryOf(refs, heap')
    /\ held' = [held EXCEPT !.writes = @ + 1]
    /\ UNCHANGED <<max_len, bars_closed, on_bar_close_callbacks, arrived, lastCall,
                   aggVars, streamVars, alertVars, dedupeVars, snapVars,
                   thrVars, fsVars, refs, decVars, vwapVars>>

\* the caller changes the list it was handed: del lst[0]
CallerCutsList ==
    /\ held.objs # <<>> \/ held.vals # <<>>
    /\ held' = [objs |-> IF held.objs # <<>> THEN Tail(held.objs) ELSE <<>>,
                vals |-> IF held.vals # <<>> THEN Tail(held.vals) ELSE <<>>,
                writes |-> held.writes + 1]
    /\ bars' = HistoryOf(refs, heap)
    /\ UNCHANGED <<max_len, bars_closed, on_bar_close_callbacks, arrived, lastCall,
                   aggVars, streamVars, alertVars, dedupeVars, snapVars,
                   thrVars, fsVars, heap, refs, decVars, vwapVars>>

InitAlias ==
    /\ heap = <<>>
    /\ refs = <<>>
    /\ held = [objs |-> <<>>, vals |-> <<>>, writes |-> 0]

(***************************************************************************)
(* The decision pipeline                                                   *)
(*                                                                         *)
(* Scores are kept in hundredths: 3.8 is 380, 0.5 is 50, 10.0 is 1000.     *)
(* A call is modelled with Python's binding of arguments to parameters: a  *)
(* keyword the callee does not declare, too many positional arguments or a *)
(* required parameter left without a value raise TypeError in the caller.  *)
(***************************************************************************)
\* positional: number of positional arguments; keywords: the keywords passed;
\* params: the callee's parameters in order; required: how many of them, from
\* the left, have no default
Binds(params, required, positional, keywords) ==
    /\ positional <= Len(params)
    /\ \A k \in keywords : \E j \in (positional + 1)..Len(params) : params[j] = k
    /\ \A j \in (positional + 1)..required : params[j] \in keywords

\* a DecisionResult that is returned (decision_engine.py:16-22)
DecisionResult(state, score, direction, components, reason) ==
    [kind |-> "return", state |-> state, score |-> score, direction |-> direction,
     components |-> components, reason |-> reason]

\* an exception leaving the function instead of a result
Raised(exc, at) ==
    [kind |-> "raise", state |-> exc, score |-> 0, direction |-> None,
     components |-> <<>>, reason |-> at]

\* what a call does to its caller: TypeError when the arguments do not bind;
\* otherwise the caller goes on past the part modelled here
Call(params, required, positional, keywords, at) ==
    IF Binds(params, required, positional, keywords)
    THEN [kind |-> "continues", state |-> None, score |-> 0, direction |-> None,
          components |-> <<>>, reason |-> at]
    ELSE Raised("TypeError", at)

RECURSIVE SumSeq(_)
SumSeq(s) == IF s = <<>> THEN 0 ELSE Head(s) + SumSeq(Tail(s))

LiquidityLookback == 30
MinAvgVolume == 250000

\* liquidity_filter.analyze_liquidity(volume_history): avg_vol is
\* sum(recent) / lookback, compared here through the sum
AnalyzeLiquidity(volume_history) ==
    LET total == SumSeq(LastN(volume_history, LiquidityLookback))
    IN IF Len(volume_history) < LiquidityLookback
       THEN [state |-> "ILLIQUID", score |-> -100, comment |-> "insufficient data"]
       ELSE IF total < MinAvgVolume * LiquidityLookback
       THEN [state |-> "ILLIQUID", score |-> -100, comment |-> "below liquidity threshold"]
       ELSE IF total < MinAvgVolume * 3 * LiquidityLookback
       THEN [state |-> "TRADABLE", score |-> 50, comment |-> "adequate liquidity"]
       ELSE [state |-> "HIGH_LIQUID", score |-> 100, comment |-> "high liquidity"]

\* volume_filter.analyze_volume(volume_history, lookback=20): its parameters
AnalyzeVolumeParams == <<"volume_history", "lookback">>

\* an early return that hands back the score accumulated so far
FinalTradeDecisionKeepsScore(pullback_signal, market_regime, htf_bias_direction, vwap_ctx, series) ==
    IF ~pullback_signal.present
    THEN DecisionResult("IGNORE", 0, None, <<>>, "no pullback")
    ELSE IF \/ pullback_signal.direction = "LONG" /\ htf_bias_direction # "BULLISH"
            \/ pullback_signal.direction = "SHORT" /\ htf_bias_direction # "BEARISH"
    THEN DecisionResult("IGNORE", 380, None, <<>>, "htf mismatch")
    ELSE IF market_regime \in {"WEAK", "COMPRESSION"}
    THEN DecisionResult("IGNORE", 380 + 160, None, <<>>, "bad regime")
    ELSE IF pullback_signal.direction = "LONG" /\ vwap_ctx.acceptance = "BELOW"
    THEN DecisionResult("IGNORE", 380 + 160, None, <<>>, "below vwap")
    ELSE IF pullback_signal.direction = "SHORT" /\ vwap_ctx.acceptance = "ABOVE"
    THEN DecisionResult("IGNORE", 380 + 160, None, <<>>, "above vwap")
    ELSE Call(AnalyzeVolumeParams, 1, 1, {"close_prices"}, "decision_engine.py:101")

\* the engine without its VWAP gate
FinalTradeDecisionNoVwapGate(pullback_signal, market_regime, htf_bias_direction, vwap_ctx, series) ==
    IF ~pullback_signal.present
    THEN DecisionResult("IGNORE", 0, None, <<>>, "no pullback")
    ELSE IF \/ pullback_signal.direction = "LONG" /\ htf_bias_direction # "BULLISH"
            \/ pullback_signal.direction = "SHORT" /\ htf_bias_direction # "BEARISH"
    THEN DecisionResult("IGNORE", 0, None, <<>>, "htf mismatch")
    ELSE IF market_regime \in {"WEAK", "COMPRESSION"}
    THEN DecisionResult("IGNORE", 0, None, <<>>, "bad regime")
    ELSE Call(AnalyzeVolumeParams, 1, 1, {"close_prices"}, "decision_engine.py:101")

\* decision_engine.final_trade_decision.  series holds prices, highs, lows,
\* closes and volumes.  The call at line 101 passes close_prices, which
\* analyze_volume does not declare: it raises TypeError for every input that
\* gets there, so nothing of lines 103-186 is ever executed.
FinalTradeDecision(pullback_signal, market_regime, htf_bias_direction, vwap_ctx, series) ==
    IF ~pullback_signal.present                                  \* lines 42-43
    THEN DecisionResult("IGNORE", 0, None, <<>>, "no pullback")
    ELSE IF \/ pullback_signal.direction = "LONG" /\ htf_bias_direction # "BULLISH"
            \/ pullback_signal.direction = "SHORT" /\ htf_bias_direction # "BEARISH"
    THEN DecisionResult("IGNORE", 0, None, <<>>, "htf mismatch")   \* lines 61-65
    ELSE IF market_regime \in {"WEAK", "COMPRESSION"}            \* lines 74-75
    THEN DecisionResult("IGNORE", 0, None, <<>>, "bad regime")
    ELSE IF pullback_signal.direction = "LONG" /\ vwap_ctx.acceptance = "BELOW"
    THEN DecisionResult("IGNORE", 0, None, <<>>, "below vwap")     \* lines 88-89
    ELSE IF pullback_signal.direction = "SHORT" /\ vwap_ctx.acceptance = "ABOVE"
    THEN DecisionResult("IGNORE", 0, None, <<>>, "above vwap")     \* lines 91-92
    ELSE Call(AnalyzeVolumeParams, 1, 1, {"close_prices"},       \* line 101
              "decision_engine.py:101")

\* a call of final_trade_decision
Decide(pullback_signal, market_regime, htf_bias_direction, vwap_ctx, series) ==
    /\ ~decision.made
    /\ decision' = [made |-> TRUE, op |-> "final_trade_decision",
                    pullback_signal |-> pullback_signal,
                    market_regime |-> market_regime,
                    htf_bias_direction |-> htf_bias_direction,
                    vwap_ctx |-> vwap_ctx, series |-> series,
                    out |-> FinalTradeDecision(pullback_signal, market_regime,
                                               htf_bias_direction, vwap_ctx, series)]
    /\ UNCHANGED <<storeVars, aggVars, streamVars, alertVars, dedupeVars, snapVars,
                   thrVars, fsVars, aliasVars, vwapVars>>

InitDec == decision = [made |-> FALSE]

InitThreads ==
    /\ pc = [t \in Threads |-> "idle"]
    /\ loc = [t \in Threads |-> NoLoc]
    /\ global_lock = None
    /\ locks = [i \in Insts |-> None]
    /\ replay_mode = FALSE
    /\ ops = 0
    /\ lastSave = [done |-> FALSE, snap |-> <<>>, seen |-> {}]

(***************************************************************************)
(* VWAPCalculator (strategy/vwap_filter.py).  Prices and volumes are       *)
(* integers, where float sums and products are exact; a VWAP is kept as    *)
(* the pair <<price_volume_sum, volume_sum>> it is the quotient of.  An    *)
(* argument is <<>> for None and <<x>> for the number x.                   *)
(***************************************************************************)

SlopeWindow == 7

\* VWAPCalculator.__init__(window): window 0 stands for None
NewCalc(window) ==
    [window |-> window, price_volume_sum |-> 0, volume_sum |-> 0,
     vwap_history |-> <<>>, price_volume_deque |-> <<>>, volume_deque |-> <<>>]

\* VWAPCalculator.reset
VwapReset(c) ==
    [c EXCEPT !.price_volume_sum = 0, !.volume_sum = 0, !.vwap_history = <<>>,
              !.price_volume_deque = <<>>, !.volume_deque = <<>>]

\* update that never looks at the volume it is given
VwapUpdateAnyVolume(c, price, volume) ==
    IF price = <<>> \/ volume = <<>>
    THEN [calc |-> c, ret |-> <<>>]
    ELSE LET pv == c.price_volume_sum + price[1] * volume[1]
             v == c.volume_sum + volume[1]
         IN IF v <= 0
            THEN [calc |-> [c EXCEPT !.price_volume_sum = pv, !.volume_sum = v],
                  ret |-> <<>>]
            ELSE [calc |-> [c EXCEPT !.price_volume_sum = pv, !.volume_sum = v,
                                     !.vwap_history =
                                         DequeAppend(@, <<pv, v>>, SlopeWindow)],
                  ret |-> <<pv, v>>]

\* VWAPCalculator.update(price, volume): the calculator after the call and
\* what the call returns
VwapUpdate(c, price, volume) ==
    IF price = <<>> \/ volume = <<>> \/ volume[1] <= 0
    THEN [calc |-> c, ret |-> <<>>]
    ELSE LET pvd == IF c.window # 0
                    THEN DequeAppend(c.price_volume_deque, price[1] * volume[1], c.window)
                    ELSE c.price_volume_deque
             vd == IF c.window # 0
                   THEN DequeAppend(c.volume_deque, volume[1], c.window)
                   ELSE c.volume_deque
             pv == IF c.window # 0 THEN SumSeq(pvd)
                   ELSE c.price_volume_sum + price[1] * volume[1]
             v == IF c.window # 0 THEN SumSeq(vd) ELSE c.volume_sum + volume[1]
             summed == [c EXCEPT !.price_volume_deque = pvd, !.volume_deque = vd,
                                 !.price_volume_sum = pv, !.volume_sum = v]
         IN IF v <= 0
            THEN [calc |-> summed, ret |-> <<>>]
            ELSE [calc |-> [summed EXCEPT !.vwap_history =
                                              DequeAppend(@, <<pv, v>>, SlopeWindow)],
                  ret |-> <<pv, v>>]

\* get_vwap dividing with // instead of /
VwapGetVwapFloored(c) ==
    IF c.volume_sum <= 0 THEN <<>> ELSE <<c.price_volume_sum \div c.volume_sum, 1>>

\* VWAPCalculator.get_vwap
VwapGetVwap(c) ==
    IF c.volume_sum <= 0 THEN <<>> ELSE <<c.price_volume_sum, c.volume_sum>>

\* the sign of a / b - c / d for positive b and d
CompareRatio(x, y) ==
    IF x[1] * y[2] > y[1] * x[2] THEN 1
    ELSE IF x[1] * y[2] < y[1] * x[2] THEN -1
    ELSE 0

\* VWAPCalculator.get_context(price): acceptance, pressure and score (in
\* hundredths).  distance_pct divides by the VWAP, which is 0 when the
\* accumulated price * volume is.
VwapGetContext(c, price) ==
    LET vwap == VwapGetVwap(c)
    IN IF vwap = <<>> \/ price = <<>>
       THEN [kind |-> "return", acceptance |-> "NEAR", pressure |-> "NEUTRAL", score |-> 0]
       ELSE IF vwap[1] = 0
       THEN [kind |-> "raise", acceptance |-> "ZeroDivisionError", pressure |-> None,
             score |-> 0]
       ELSE LET \* (price - vwap) / vwap * 100 against 0.3 and -0.3
                diff == price[1] * vwap[2] - vwap[1]
                above == IF vwap[1] > 0 THEN diff * 1000 > 3 * vwap[1]
                         ELSE diff * 1000 < 3 * vwap[1]
                below == IF vwap[1] > 0 THEN diff * 1000 < (0 - 3) * vwap[1]
                         ELSE diff * 1000 > (0 - 3) * vwap[1]
                acceptance == IF above THEN "ABOVE" ELSE IF below THEN "BELOW" ELSE "NEAR"
                h == c.vwap_history
                slope == IF Len(h) >= 2 THEN CompareRatio(h[Len(h)], h[1]) ELSE 0
            IN IF acceptance = "ABOVE" /\ slope > 0
               THEN [kind |-> "return", acceptance |-> acceptance, pressure |-> "BUYING",
                     score |-> 150]
               ELSE IF acceptance = "BELOW" /\ slope < 0
               THEN [kind |-> "return", acceptance |-> acceptance, pressure |-> "SELLING",
                     score |-> -150]
               ELSE IF acceptance = "NEAR"
               THEN [kind |-> "return", acceptance |-> acceptance, pressure |-> "NEUTRAL",
                     score |-> 0]
               ELSE [kind |-> "return", acceptance |-> acceptance, pressure |-> "NEUTRAL",
                     score |-> -40]

\* one call on the calculator; vwap_trace keeps the call, what it returned and
\* the arguments of every update since the calculator was last empty
VwapCall(op, c, ret, updates) ==
    /\ calc' = c
    /\ vwap_trace' = [op |-> op, ret |-> ret, updates |-> updates]
    /\ UNCHANGED <<storeVars, aggVars, streamVars, alertVars, dedupeVars, snapVars,
                   thrVars, fsVars, aliasVars, decVars>>

CallUpdate(price, volume) ==
    LET r == VwapUpdate(calc, price, volume)
    IN /\ Len(vwap_trace.updates) < MaxVwapUpdates
       /\ VwapCall("update", r.calc, r.ret, Append(vwap_trace.updates, <<price, volume>>))

CallGetVwap == VwapCall("get_vwap", calc, VwapGetVwap(calc), vwap_trace.updates)

CallGetContext(price) ==
    VwapCall("get_context", calc, VwapGetContext(calc, price), vwap_trace.updates)

CallReset == VwapCall("reset", VwapReset(calc), <<>>, <<>>)

InitVwap(windows) ==
    /\ calc \in {NewCalc(w) : w \in windows}
    /\ vwap_trace = [op |-> "__init__", ret |-> <<>>, updates |-> <<>>]

Init == Init0 /\ InitThreads /\ InitFs /\ InitAlias /\ InitDec /\ InitVwap({0})

\* the store constructed with the largest capacity of the model
InitCap == Init /\ max_len = MaxCap

\* the times of the bars fed to the aggregator: on the minute or 30 s after it
AggTimes == { 60 * m + sec : m \in 0..MaxMinute, sec \in {0, 30} }

Feeds == Len(retLog["A"]) + Len(retLog["B"])

\* the price of the bar fed at time t: 1 in even minutes, 2 in odd ones
PriceAt(t) == 1 + ((t \div 60) % 2)

NextAgg ==
    \E inst \in Insts, t \in AggTimes :
        /\ Feeds < MaxFeeds
        /\ Update(inst, t, PriceAt(t), PriceAt(t) + 1, PriceAt(t) - 1, PriceAt(t), 1)

SpecAgg == InitCap /\ [][NextAgg]_vars

\* a call of Candle5mBuilder.update that is logged with the bar it was fed
LoggedUpdate(inst, bar) ==
    LET r == BuilderUpdate(buffers, last_5m_time, inst, bar.time,
                           bar.open, bar.high, bar.low, bar.close, bar.volume)
    IN /\ Len(fedLog["A"]) + Len(fedLog["B"]) < MaxLoggedBars
       /\ buffers' = r.buffers
       /\ last_5m_time' = r.last_5m_time
       /\ prevFed' = [prevFed EXCEPT ![inst] = <<bar.time>>]
       /\ retLog' = [retLog EXCEPT ![inst] = Append(@, r.ret)]
       /\ fedLog' = [fedLog EXCEPT ![inst] = Append(@, bar)]
       /\ UNCHANGED <<storeVars, streamVars, thrVars, fsVars, aliasVars, decVars, vwapVars,
                      alertVars, dedupeVars, snapVars>>

\* bar times: 00:04:00, 00:04:30, 00:05:00, 00:09:59 and 01:04:00
LoggedTimes == {240, 270, 300, 599, 3840}

\* a bar closing up and a wider bar closing down
LoggedShapes ==
    {[open |-> 2, high |-> 4, low |-> 2, close |-> 3, volume |-> 1],
     [open |-> 3, high |-> 5, low |-> 1, close |-> 2, volume |-> 2]}

NextAggLogged ==
    \E inst \in Insts, t \in LoggedTimes, shape \in LoggedShapes :
        LoggedUpdate(inst, [time |-> t, open |-> shape.open, high |-> shape.high,
                            low |-> shape.low, close |-> shape.close,
                            volume |-> shape.volume])

SpecAggLogged == InitCap /\ [][NextAggLogged]_vars

Arrivals == Len(arrived["A"]) + Len(arrived["B"])

\* ingestion alone: any sequence of append_ohlc_bar calls
NextFifo ==
    \E inst \in Insts, bar \in BarInputs :
        /\ Arrivals < MaxAppends
        /\ AppendOhlcBar(inst, bar, <<>>)

SpecFifo == Init /\ [][NextFifo]_vars

\* ingestion with bar-close observers that may fail or unregister themselves
NextCallbacks ==
    \/ \E inst \in Insts, bar \in BarInputs :
          \E outs \in [1..Len(on_bar_close_callbacks) -> CbOutcomes] :
             /\ Arrivals < MaxCbAppends
             /\ AppendOhlcBar(inst, bar, outs)
    \/ \E cb \in Callbacks : RegisterOnBarClose(cb)
    \/ \E cb \in Callbacks : UnregisterOnBarClose(cb)

SpecCallbacks == Init /\ [][NextCallbacks]_vars

\* the timestamps (ms) of the bars in the messages
StreamTs == { 1000 * (60 * m) : m \in StreamMinutes }

OkFeed(ts) ==
    [kind |-> "ok", ts |-> ts, close |-> PriceAt(ts \div 1000),
     high |-> PriceAt(ts \div 1000) + 1, low |-> PriceAt(ts \div 1000) - 1, vol |-> 1]

FeedInputs ==
    { [kind |-> k, ts |-> 0, close |-> 0, high |-> 0, low |-> 0, vol |-> 0] :
        k \in FeedKinds \ {"ok"} }
    \cup { OkFeed(ts) : ts \in StreamTs }

FeedOrders == { <<"A">>, <<"B">>, <<"A", "B">>, <<"B", "A">> }

NextStream ==
    \/ \E order \in FeedOrders, ev \in EvalOutcomes :
          \E feeds \in [{order[k] : k \in 1..Len(order)} -> FeedInputs] :
             /\ msgs < MaxMsgs
             /\ OnMessage(order, feeds, ev)
    \/ NextDay

SpecStream == InitCap /\ [][NextStream]_vars

\* throttling on one thread: the clock, emissions, pauses and queries
NextAlert ==
    \/ Tick
    \/ \E inst \in Insts : MarkAlertEmitted(inst)
    \/ \E inst \in Insts, until_ts \in 0..MaxNow : MarkInstrumentPaused(inst, until_ts)
    \/ \E inst \in Insts, cd \in 1..MaxCooldown : CanEmitAlert(inst, cd)

SpecAlert == InitCap /\ [][NextAlert]_vars

\* two threads, each making one dedupe_alert call, on a store that has
\* recorded no alert yet
NextDedupe ==
    \/ Tick
    \/ \E t \in Callers, inst \in Insts, d \in Directions :
          DedupeBegin(t, inst, d, MaxCooldown)
    \/ \E t \in Callers : DedupeFinish(t)

SpecDedupe == InitCap /\ [][NextDedupe]_vars

\* one thread that ingests, emits, saves and loads, and a file that may be
\* damaged between the calls
NextSnap ==
    \/ \E inst \in Insts, bar \in BarInputs :
          /\ Arrivals < MaxSnapAppends
          /\ AppendOhlcBar(inst, bar, <<>>)
    \/ \E inst \in Insts : MarkAlertEmitted(inst)
    \/ SaveSnapshot
    \/ LoadSnapshot
    \/ \E content \in DamagedFiles : WriteFile(content)

SpecSnap == InitCap /\ [][NextSnap]_vars

\* the bar the threads ingest
ThreadBar == MakeBar(1, 1, 2, 1, 1, 10)

\* what replay_bars is given: a bar lacking a key, then a complete bar
ReplayList == <<[ok |-> FALSE, bar |-> ThreadBar], [ok |-> TRUE, bar |-> ThreadBar]>>

\* two threads ingest, replay and read while a third saves snapshots; one
\* observer is registered or not
NextThreads ==
    \/ /\ ops = 0
       /\ RegisterOnBarClose("cb1")
    \/ \E t \in Callers, inst \in Insts : StartAppend(t, inst, ThreadBar)
    \/ \E t \in Callers, inst \in Insts, cc \in BOOLEAN :
          StartReplay(t, inst, ReplayList, cc)
    \/ \E t \in Callers, inst \in Insts : StartGet(t, inst)
    \/ \E t \in Threads \ Callers : StartSave(t)
    \/ \E t \in Threads : EnsureAcquire(t)
    \/ \E t \in Threads : EnsureBody(t)
    \/ \E t \in Threads : LockAcquire(t)
    \/ \E t \in Threads : ReplayNext(t)
    \/ \E t \in Threads : DoAppend(t)
    \/ \E t \in Threads : CountLoad(t)
    \/ \E t \in Threads : CountStore(t)
    \/ \E t \in Threads, b \in CbBehaviours : CbInvoke(t, b)
    \/ \E t \in Threads : CbRead(t)
    \/ \E t \in Threads : CbDone(t)
    \/ \E t \in Threads : GetRead(t)
    \/ \E t \in Threads : SaveAcquire(t)
    \/ \E t \in Threads : SaveCopy(t)
    \/ \E t \in Threads : SaveWrite(t)

SpecThreads == InitCap /\ [][NextThreads]_vars

\* two threads save to the same path, each save may fail in the middle,
\* while bars arrive
NextSave ==
    \/ \E inst \in Insts, bar \in BarInputs :
          /\ Arrivals < MaxSnapAppends
          /\ AppendOhlcBar(inst, bar, <<>>)
    \/ \E t \in Callers : FsCollect(t)
    \/ \E t \in Callers : FsOpen(t)
    \/ \E t \in Callers : FsWriteFirst(t)
    \/ \E t \in Callers : FsWriteRest(t)
    \/ \E t \in Callers : FsWriteFails(t)
    \/ \E t \in Callers : FsReplace(t)

SpecSave == InitCap /\ [][NextSave]_vars

\* one caller ingests, reads and writes into what it was handed
NextAlias ==
    \/ \E inst \in Insts, bar \in BarInputs :
          /\ Len(heap) < MaxObjs
          /\ ObjAppend(inst, bar)
    \/ \E inst \in Insts, n \in 1..MaxCap : ObjGetLastNBars(inst, n)
    \/ \E inst \in Insts :
          /\ Len(heap) < MaxObjs
          /\ ObjGetLastBar(inst)
    \/ \E inst \in Insts, field \in BarFields \ {"time"} : ObjGetValues(inst, field)
    \/ \E k \in 1..MaxCap, field \in {"close", "volume"} :
          /\ held.writes < MaxWrites
          /\ CallerSetsField(k, field, 0)
    \/ /\ held.writes < MaxWrites
       /\ CallerCutsList

SpecAlias == InitCap /\ [][NextAlias]_vars

\* the pullback signals handed to the decision engine: none, or a dict as
\* detect_pullback_signal builds it (pullback_detector.py:134-153)
NoLevel == [type |-> None, dist_pct |-> 0, strength |-> 0]

NoSignal ==
    [present |-> FALSE, signal |-> None, direction |-> None, score |-> 0,
     nearest_level |-> NoLevel]

NearLevel(direction) ==
    [type |-> IF direction = "LONG" THEN "support" ELSE "resistance",
     dist_pct |-> 1, strength |-> 2]

PullbackSignals ==
    {NoSignal} \cup
    { [present |-> TRUE, signal |-> sg[1], direction |-> d, score |-> sg[2],
       nearest_level |-> NearLevel(d)] :
         sg \in {<<"POTENTIAL", 320>>, <<"POTENTIAL", 380>>,
                 <<"CONFIRMED", 480>>, <<"CONFIRMED", 560>>},
         d \in Directions }

\* every regime name the decision engine tests for or detect_market_regime returns
RegimeNames ==
    {"RANGE", "TREND", "STRONG_TREND", "WEAK", "COMPRESSION", "EARLY_TREND", "TRENDING"}

BiasDirections == {"BULLISH", "BEARISH", "NEUTRAL"}

\* the (acceptance, score) pairs VWAPCalculator.get_context builds
VwapContexts ==
    { [acceptance |-> "ABOVE", score |-> 150], [acceptance |-> "ABOVE", score |-> -40],
      [acceptance |-> "BELOW", score |-> -150], [acceptance |-> "BELOW", score |-> -40],
      [acceptance |-> "NEAR", score |-> 0] }

ConstSeq(n, v) == [k \in 1..n |-> v]

\* histories: too short for the liquidity lookback, thin, tradable, liquid
VolumeInputs ==
    { <<>>, ConstSeq(LiquidityLookback - 1, 800000),
      ConstSeq(LiquidityLookback, 100000), ConstSeq(LiquidityLookback, 300000),
      ConstSeq(LiquidityLookback + 1, 800000) }

SeriesOf(volumes) ==
    [prices |-> ConstSeq(Len(volumes), 100), highs |-> ConstSeq(Len(volumes), 101),
     lows |-> ConstSeq(Len(volumes), 99), closes |-> ConstSeq(Len(volumes), 100),
     volumes |-> volumes]

\* ---------------------------------------------------------------------------
\* The pullback detectors (strategy/pullback_detector.py, which the strategy
\* engine imports, and strategy/breakout_detector.py).  Prices are integers;
\* a ratio test is made by cross-multiplication.
\* ---------------------------------------------------------------------------

Abs(a) == IF a >= 0 THEN a ELSE 0 - a

\* s[-k] of a Python list
FromEnd(s, k) == s[Len(s) - k + 1]

AtrPeriod == 14

\* volatility_filter.compute_true_range
ComputeTrueRange(highs, lows, closes) ==
    IF Len(highs) < 2 THEN <<>>
    ELSE [i \in 1..(Len(highs) - 1) |->
             Max(highs[i + 1] - lows[i + 1],
                 Max(Abs(highs[i + 1] - closes[i]), Abs(lows[i + 1] - closes[i])))]

\* volatility_filter.compute_atr: None below period true ranges, else the mean
\* of the last period of them, kept as its numerator (atr = sum / AtrPeriod)
ComputeAtr(highs, lows, closes) ==
    LET tr == ComputeTrueRange(highs, lows, closes)
    IN IF Len(tr) < AtrPeriod
       THEN [none |-> TRUE, sum |-> 0]
       ELSE [none |-> FALSE, sum |-> SumSeq(LastN(tr, AtrPeriod))]

\* price_action.rejection_info: the rejection_type.  total_range is
\* max(high - low, 1e-9); a wick of a bar without range is 0 unless the open
\* lies outside the bar.
RejectionInfo(open_p, high, low, close) ==
    LET body == Abs(close - open_p)
        range == high - low
        upper_wick == Max(0, high - Max(close, open_p))
        lower_wick == Max(0, Min(close, open_p) - low)
        Long(wick) ==
            /\ IF range > 0 THEN wick * 100 > 35 * range ELSE wick > 0
            /\ wick * 10 > body * 12
    IN IF Long(lower_wick) THEN "BULLISH"
       ELSE IF Long(upper_wick) THEN "BEARISH"
       ELSE None

\* the direction both detectors derive from the nearest level and the bias
TradeDirection(nearest, htf_direction) ==
    IF nearest.type = "support" /\ htf_direction = "BULLISH" THEN "LONG"
    ELSE IF nearest.type = "resistance" /\ htf_direction = "BEARISH" THEN "SHORT"
    ELSE None

\* rejection_ok of both detectors: a wick of the trade direction's polarity
RejectionOk(direction, highs, lows, closes) ==
    LET rej == RejectionInfo(FromEnd(closes, 2), FromEnd(highs, 1),
                             FromEnd(lows, 1), FromEnd(closes, 1))
    IN \/ direction = "LONG" /\ rej = "BULLISH"
       \/ direction = "SHORT" /\ rej = "BEARISH"

\* reaction_ok (pullback_detector.py:100-106), resume_ok (breakout_detector.py:89-93)
ResumeOk(direction, closes) ==
    \/ direction = "LONG" /\ FromEnd(closes, 1) > FromEnd(closes, 3)
    \/ direction = "SHORT" /\ FromEnd(closes, 1) < FromEnd(closes, 3)

\* what a detector returns: a signal dict, or None as NoSignal
Returned(signal) == [kind |-> "return", signal |-> signal]

PullbackMinBars == 30
BreakoutMinBars == 40
MinBars5m == 20

\* volatility_filter.analyze_volatility(highs, lows, closes): its parameters
AnalyzeVolatilityParams == <<"highs", "lows", "closes">>

\* pullback_detector.detect_pullback_signal.  nearest is what get_nearest_sr
\* returns at line 34 (NoLevel for None).  The call at line 62 passes
\* current_move and atr_value, which analyze_volatility does not declare: it
\* raises TypeError for every input that gets there, before the rejection and
\* the reaction are looked at.
PullbackDetectPullbackSignal(highs, lows, closes, volumes, htf_direction, nearest) ==
    LET direction == TradeDirection(nearest, htf_direction)
        atr == ComputeAtr(highs, lows, closes)
    IN IF Len(closes) < PullbackMinBars THEN Returned(NoSignal)
       ELSE IF nearest.type = None THEN Returned(NoSignal)
       ELSE IF direction = None THEN Returned(NoSignal)
       ELSE IF /\ ~atr.none /\ atr.sum # 0
               /\ Abs(FromEnd(closes, 1) - FromEnd(closes, 6)) * AtrPeriod * 10 > atr.sum * 22
       THEN Returned(NoSignal)
       ELSE Call(AnalyzeVolatilityParams, 3, 0, {"current_move", "atr_value"},
                 "pullback_detector.py:62")

\* breakout_detector.detect_pullback_signal.  Without a wick and without a
\* resume it returns None at line 96; otherwise the call at line 102 passes
\* close_prices to analyze_volume and raises TypeError.
BreakoutDetectPullbackSignal(highs_1m, lows_1m, closes_1m, volumes_1m, highs_5m, htf_direction, nearest) ==
    LET trade_direction == TradeDirection(nearest, htf_direction)
        atr == ComputeAtr(highs_1m, lows_1m, closes_1m)
    IN IF Len(closes_1m) < BreakoutMinBars \/ Len(highs_5m) < MinBars5m
       THEN Returned(NoSignal)
       ELSE IF nearest.type = None THEN Returned(NoSignal)
       ELSE IF trade_direction = None THEN Returned(NoSignal)
       ELSE IF atr.none \/ atr.sum <= 0 THEN Returned(NoSignal)
       ELSE IF Abs(FromEnd(closes_1m, 1) - FromEnd(closes_1m, 8)) * AtrPeriod * 10
                  > atr.sum * 14
       THEN Returned(NoSignal)
       ELSE IF ~(\/ RejectionOk(trade_direction, highs_1m, lows_1m, closes_1m)
                 \/ ResumeOk(trade_direction, closes_1m))
       THEN Returned(NoSignal)
       ELSE Call(AnalyzeVolumeParams, 1, 1, {"close_prices"}, "breakout_detector.py:102")

\* one call of a detector
Detect(variant, highs, lows, closes, volumes, highs_5m, htf_direction, nearest) ==
    /\ ~decision.made
    /\ decision' = [made |-> TRUE, op |-> "detect_pullback_signal",
                    variant |-> variant, highs |-> highs, lows |-> lows,
                    closes |-> closes, volumes |-> volumes, highs_5m |-> highs_5m,
                    htf_direction |-> htf_direction, nearest |-> nearest,
                    out |-> IF variant = "pullback_detector"
                            THEN PullbackDetectPullbackSignal(highs, lows, closes, volumes,
                                                              htf_direction, nearest)
                            ELSE BreakoutDetectPullbackSignal(highs, lows, closes, volumes,
                                                              highs_5m, htf_direction,
                                                              nearest)]
    /\ UNCHANGED <<storeVars, aggVars, streamVars, alertVars, dedupeVars, snapVars,
                   thrVars, fsVars, aliasVars, vwapVars>>

\* the last three bars of a history whose earlier bars close at 100 with a
\* range of one above and below: closes c3, c2, c1, the last bar opening at
\* c2 with wicks of up and down beyond its body
BarsOf(n, c3, c2, c1, up, down) ==
    LET closes == ConstSeq(n - 3, 100) \o <<c3, c2, c1>>
    IN [closes |-> closes,
        highs |-> [k \in 1..n |-> IF k = n THEN Max(c1, c2) + up ELSE closes[k] + 1],
        lows |-> [k \in 1..n |-> IF k = n THEN Min(c1, c2) - down ELSE closes[k] - 1],
        volumes |-> ConstSeq(n, 800000)]

DetectorBars ==
    { BarsOf(n, c3, c2, c1, up, down) :
        n \in {PullbackMinBars - 1, BreakoutMinBars - 1, BreakoutMinBars}, c3 \in {99, 101}, c2 \in {100, 101},
        c1 \in {99, 100, 101, 110}, up \in {0, 3}, down \in {0, 3} }

LevelInputs == {NoLevel, NearLevel("LONG"), NearLevel("SHORT")}

Highs5mInputs == {ConstSeq(MinBars5m - 1, 101), ConstSeq(MinBars5m, 101)}

\* ---------------------------------------------------------------------------
\* StrategyEngine.evaluate (strategy/strategy_engine.py).  strategy.mtf_builder,
\* strategy.mtf_context and strategy.htf_bias are not part of the sources: what
\* they hand to evaluate (the latest 5m candle, the 5m history, the MTF
\* context, the HTF bias) is an input here.
\* ---------------------------------------------------------------------------

RegimeMinBars == 25

\* market_regime.detect_market_regime after compute_atr and compute_adx:
\* available is `atr is not None and adx is not None`, vol_norm is atr over
\* the average close in 1/10000
DetectMarketRegime(n, available, adx, vol_norm) ==
    IF n < RegimeMinBars THEN "RANGE"
    ELSE IF ~available THEN "RANGE"
    ELSE IF adx >= 28 /\ vol_norm > 40 THEN "STRONG_TREND"
    ELSE IF adx >= 20 /\ vol_norm > 25 THEN "TREND"
    ELSE "RANGE"

EvaluateMinBars == 50

\* evaluate returning None
ReturnedNone(at) ==
    [kind |-> "return", state |-> None, score |-> 0, direction |-> None,
     components |-> <<>>, reason |-> at]

\* pullback_detector.detect_pullback_signal: its parameters, five required
PullbackDetectorParams ==
    <<"highs", "lows", "closes", "volumes", "htf_direction", "max_proximity", "min_bars">>

\* the keywords of the call at strategy_engine.py:140-149
EvaluateDetectKeywords ==
    {"prices_1m", "highs_1m", "lows_1m", "closes_1m", "volumes_1m", "highs_5m",
     "lows_5m", "htf_direction"}

\* the pipeline answering with an EXECUTE result once the gates are passed
EvaluateOutcomeExecutes(series, candle_5m, hist_5m, mtf_ctx, regime, vwap_ctx, htf_bias, nearest) ==
    IF Len(series.closes) < EvaluateMinBars THEN ReturnedNone("data")
    ELSE IF ~candle_5m \/ Len(hist_5m) < MinBars5m THEN ReturnedNone("mtf data")
    ELSE IF mtf_ctx.direction = "NEUTRAL" THEN ReturnedNone("mtf neutral")
    ELSE IF mtf_ctx.conflict THEN ReturnedNone("mtf conflict")
    ELSE IF regime \in {"WEAK", "COMPRESSION"} THEN ReturnedNone("regime")
    ELSE IF mtf_ctx.direction # htf_bias THEN ReturnedNone("htf bias")
    ELSE LET direction == IF mtf_ctx.direction = "BULLISH" THEN "LONG" ELSE "SHORT"
         IN DecisionResult(IF direction = "LONG" THEN "EXECUTE_LONG" ELSE "EXECUTE_SHORT",
                           620, direction, <<>>, "continuation pullback")

\* StrategyEngine.evaluate: what it returns or raises.  The call at line 140
\* names parameters of the breakout_detector variant, while the function
\* imported at line 3 is pullback_detector's: it raises TypeError for every
\* input that gets there.
EvaluateOutcome(series, candle_5m, hist_5m, mtf_ctx, regime, vwap_ctx, htf_bias, nearest) ==
    IF Len(series.closes) < EvaluateMinBars THEN ReturnedNone("data")
    ELSE IF ~candle_5m \/ Len(hist_5m) < MinBars5m THEN ReturnedNone("mtf data")
    ELSE IF mtf_ctx.direction = "NEUTRAL" THEN ReturnedNone("mtf neutral")
    ELSE IF mtf_ctx.conflict THEN ReturnedNone("mtf conflict")
    ELSE IF regime \in {"WEAK", "COMPRESSION"} THEN ReturnedNone("regime")
    ELSE IF mtf_ctx.direction = "BULLISH" /\ htf_bias # "BULLISH" THEN ReturnedNone("htf bias")
    ELSE IF mtf_ctx.direction = "BEARISH" /\ htf_bias # "BEARISH" THEN ReturnedNone("htf bias")
    ELSE IF ~Binds(PullbackDetectorParams, 5, 0, EvaluateDetectKeywords)
    THEN Raised("TypeError", "strategy_engine.py:140")
    ELSE LET pullback == PullbackDetectPullbackSignal(series.highs, series.lows, series.closes,
                                                      series.volumes, mtf_ctx.direction, nearest)
         IN IF pullback.kind # "return" THEN pullback
            ELSE IF ~pullback.signal.present THEN ReturnedNone("no pullback")
            ELSE FinalTradeDecision(pullback.signal, regime, htf_bias, vwap_ctx, series)

\* one call of evaluate; the regime is the one detect_market_regime computes
Evaluate(series, candle_5m, hist_5m, mtf_ctx, available, adx, vol_norm, vwap_ctx, htf_bias, nearest) ==
    LET regime == DetectMarketRegime(Len(series.highs), available, adx, vol_norm)
    IN /\ ~decision.made
       /\ decision' = [made |-> TRUE, op |-> "evaluate", series |-> series,
                       candle_5m |-> candle_5m, hist_5m |-> hist_5m, mtf_ctx |-> mtf_ctx,
                       regime |-> regime, vwap_ctx |-> vwap_ctx, htf_bias |-> htf_bias,
                       out |-> EvaluateOutcome(series, candle_5m, hist_5m, mtf_ctx, regime,
                                               vwap_ctx, htf_bias, nearest)]
       /\ UNCHANGED <<storeVars, aggVars, streamVars, alertVars, dedupeVars, snapVars,
                      thrVars, fsVars, aliasVars, vwapVars>>

EvaluateBars ==
    {BarsOf(n, 99, 100, 101, 0, 3) :
        n \in {RegimeMinBars - 1, EvaluateMinBars - 1, EvaluateMinBars}}

MtfContexts == [direction : BiasDirections, conflict : BOOLEAN]

AdxInputs == {15, 20, 28}

VolNormInputs == {25, 26, 41}

\* one call per behaviour of the decision engine, of a detector or of the
\* strategy engine, on every combination of its inputs: none of them keeps
\* state between calls
NextDecision ==
    /\ ~decision.made
    /\ \/ \E ps \in PullbackSignals, rg \in RegimeNames, bias \in BiasDirections,
             vw \in VwapContexts, vol \in VolumeInputs :
                Decide(ps, rg, bias, vw, SeriesOf(vol))
       \/ \E b \in DetectorBars, htf \in BiasDirections, lv \in LevelInputs :
             \/ Detect("pullback_detector", b.highs, b.lows, b.closes, b.volumes, <<>>, htf, lv)
             \/ \E h5 \in Highs5mInputs :
                   Detect("breakout_detector", b.highs, b.lows, b.closes, b.volumes, h5, htf, lv)
       \/ \E b \in EvaluateBars, c5 \in BOOLEAN, h5 \in Highs5mInputs, mtf \in MtfContexts,
             av \in BOOLEAN, adx \in AdxInputs, vn \in VolNormInputs,
             vw \in VwapContexts, bias \in BiasDirections :
                Evaluate(b, c5, h5, mtf, av, adx, vn, vw, bias, NearLevel("LONG"))

SpecDecision == InitCap /\ [][NextDecision]_vars

(***************************************************************************)
(* Support and resistance levels (strategy/sr_levels.py).  A price is an   *)
(* integer number of millionths, the unit round(level, 6) rounds to; the   *)
(* tolerance is in 1/10000.                                                *)
(***************************************************************************)

\* sorted(s, key, reverse): stable, s[i] has the key keys[i]
SortedByKey(s, keys, reverse) ==
    LET n == Len(s)
        Before(j, i) ==
            \/ (IF reverse THEN keys[j] > keys[i] ELSE keys[j] < keys[i])
            \/ keys[j] = keys[i] /\ j < i
        Rank(i) == 1 + Cardinality({j \in 1..n : Before(j, i)})
    IN [r \in 1..n |-> s[CHOOSE i \in 1..n : Rank(i) = r]]

\* round(total / count, 0) for a positive count: to the nearest integer, a
\* tie to the even one
RoundDiv(total, count) ==
    LET q == total \div count
        r == total % count
    IN IF 2 * r < count THEN q
       ELSE IF 2 * r > count THEN q + 1
       ELSE IF q % 2 = 0 THEN q ELSE q + 1

\* sr_levels._find_local_extrema: the values of the maxima and of the minima
FindLocalExtrema(values, window) ==
    LET n == Len(values)
        half == window \div 2
        Around(i) == ((i - half)..(i - 1)) \cup ((i + 1)..(i + half))
        IsMax(i) == \A j \in Around(i) : values[i] >= values[j]
        IsMin(i) == \A j \in Around(i) : values[i] <= values[j]
        centers == [k \in 1..(n - 2 * half) |-> k + half]
        ValuesAt(idx) == [k \in 1..Len(idx) |-> values[idx[k]]]
    IN IF n < window * 2 + 1
       THEN [maxima |-> <<>>, minima |-> <<>>]
       ELSE [maxima |-> ValuesAt(SelectSeq(centers, IsMax)),
             minima |-> ValuesAt(SelectSeq(centers, IsMin))]

\* the loop of _cluster_levels comparing a peak with the first member of the
\* cluster instead of the running mean
RECURSIVE ClusterLoopFromFirst(_, _, _, _)
ClusterLoopFromFirst(rest, cluster, clusters, tol_pct) ==
    IF rest = <<>> THEN Append(clusters, cluster)
    ELSE LET p == Head(rest)
         IN IF Abs(p - cluster[1]) * 10000 <= cluster[1] * tol_pct
            THEN ClusterLoopFromFirst(Tail(rest), Append(cluster, p), clusters, tol_pct)
            ELSE ClusterLoopFromFirst(Tail(rest), <<p>>, Append(clusters, cluster), tol_pct)

\* the loop of _cluster_levels (lines 79-89) over the peaks still to place:
\* abs(p - avg) <= avg * tol_pct with avg = sum(cluster) / len(cluster)
RECURSIVE ClusterLoop(_, _, _, _)
ClusterLoop(rest, cluster, clusters, tol_pct) ==
    IF rest = <<>> THEN Append(clusters, cluster)
    ELSE LET p == Head(rest)
             total == SumSeq(cluster)
         IN IF Abs(p * Len(cluster) - total) * 10000 <= total * tol_pct
            THEN ClusterLoop(Tail(rest), Append(cluster, p), clusters, tol_pct)
            ELSE ClusterLoop(Tail(rest), <<p>>, Append(clusters, cluster), tol_pct)

\* the list `clusters` of _cluster_levels
Clusters(peaks, tol_pct) ==
    IF peaks = <<>> THEN <<>>
    ELSE LET sorted_peaks == SortedByKey(peaks, peaks, FALSE)
         IN ClusterLoop(Tail(sorted_peaks), <<sorted_peaks[1]>>, <<>>, tol_pct)

\* sr_levels._cluster_levels
ClusterLevels(peaks, tol_pct) ==
    LET clusters == Clusters(peaks, tol_pct)
    IN [k \in 1..Len(clusters) |->
           [level |-> RoundDiv(SumSeq(clusters[k]), Len(clusters[k])),
            count |-> Len(clusters[k]),
            strength |-> Min(Len(clusters[k]), 5)]]

\* s[:n] of a Python list, n >= 0
FirstN(s, n) == SubSeq(s, 1, Min(Len(s), n))

\* sr_levels.compute_sr_levels
ComputeSrLevels(highs, lows, lookback, extrema_window, cluster_tol_pct, max_levels) ==
    LET highs_s == LastN(highs, lookback)
        lows_s == LastN(lows, lookback)
        resist_clusters ==
            ClusterLevels(FindLocalExtrema(highs_s, extrema_window).maxima, cluster_tol_pct)
        supp_clusters ==
            ClusterLevels(FindLocalExtrema(lows_s, extrema_window).minima, cluster_tol_pct)
        Levels(zones) == [k \in 1..Len(zones) |-> zones[k].level]
    IN IF highs_s = <<>> \/ lows_s = <<>>
       THEN [supports |-> <<>>, resistances |-> <<>>]
       ELSE [supports |->
                FirstN(SortedByKey(supp_clusters, Levels(supp_clusters), FALSE), max_levels),
             resistances |->
                FirstN(SortedByKey(resist_clusters, Levels(resist_clusters), TRUE),
                       max_levels)]

ClusterTolPct == 45

\* one call of _cluster_levels
ClusterCall(peaks) ==
    /\ ~decision.made
    /\ decision' = [made |-> TRUE, op |-> "_cluster_levels", peaks |-> peaks,
                    clusters |-> Clusters(peaks, ClusterTolPct),
                    out |-> ClusterLevels(peaks, ClusterTolPct)]
    /\ UNCHANGED <<storeVars, aggVars, streamVars, alertVars, dedupeVars, snapVars,
                   thrVars, fsVars, aliasVars, vwapVars>>

\* one call of compute_sr_levels
SrCall(highs, lows, lookback, extrema_window, max_levels) ==
    /\ ~decision.made
    /\ decision' = [made |-> TRUE, op |-> "compute_sr_levels", highs |-> highs,
                    lows |-> lows, lookback |-> lookback,
                    extrema_window |-> extrema_window, max_levels |-> max_levels,
                    out |-> ComputeSrLevels(highs, lows, lookback, extrema_window,
                                            ClusterTolPct, max_levels)]
    /\ UNCHANGED <<storeVars, aggVars, streamVars, alertVars, dedupeVars, snapVars,
                   thrVars, fsVars, aliasVars, vwapVars>>

\* prices around 0.002 and 0.003, in millionths
SrPrices == {2000, 2002, 2004, 2008, 2010, 2012, 3000, 3006}

SeqsUpTo(S, n) == UNION {[1..k -> S] : k \in 0..n}

\* one call per behaviour: of _cluster_levels on up to MaxPeaks peaks, or of
\* compute_sr_levels on MaxSrBars bars whose highs or whose lows move
NextSr ==
    /\ ~decision.made
    /\ \/ \E peaks \in SeqsUpTo(SrPrices, MaxPeaks) : ClusterCall(peaks)
       \/ \E s \in [1..MaxSrBars -> {2000, 2002, 2010}], lookback \in {MaxSrBars - 1, MaxSrBars},
             max_levels \in {1, 3} :
             \/ SrCall(s, ConstSeq(MaxSrBars, 1000), lookback, ExtremaWindow, max_levels)
             \/ SrCall(ConstSeq(MaxSrBars, 4000), s, lookback, ExtremaWindow, max_levels)
       \/ \E max_levels \in {1, 3} : SrCall(<<>>, <<>>, MaxSrBars, ExtremaWindow, max_levels)

SpecSr == InitCap /\ [][NextSr]_vars

(***************************************************************************)
(* ATR and ADX with a period (strategy/market_regime.py; compute_atr of    *)
(* strategy/volatility_filter.py is the same text).  A result is <<>> for  *)
(* None, or the quotient <<numerator, denominator>>.  Every caller passes  *)
(* a period >= 1 and three lists of one length.                            *)
(***************************************************************************)

\* compute_atr testing the number of bars instead of the number of true ranges
ComputeAtrCountingBars(highs, lows, closes, period) ==
    LET tr == ComputeTrueRange(highs, lows, closes)
    IN IF Len(highs) < period THEN <<>>
       ELSE <<SumSeq(LastN(tr, period)), period>>

\* market_regime.compute_atr
ComputeAtrPeriod(highs, lows, closes, period) ==
    LET tr == ComputeTrueRange(highs, lows, closes)
    IN IF Len(tr) < period THEN <<>>
       ELSE <<SumSeq(LastN(tr, period)), period>>

\* market_regime.compute_adx: plus_di and minus_di are the sums of the last
\* period directional moves over atr, so that dx is 100 * |P - M| / (P + M)
ComputeAdx(highs, lows, closes, period) ==
    LET n == Len(highs)
        up(i) == highs[i + 1] - highs[i]
        down(i) == lows[i] - lows[i + 1]
        plus_dm == [i \in 1..(n - 1) |-> IF up(i) > down(i) /\ up(i) > 0 THEN up(i) ELSE 0]
        minus_dm == [i \in 1..(n - 1) |-> IF down(i) > up(i) /\ down(i) > 0 THEN down(i) ELSE 0]
        atr == ComputeAtrPeriod(highs, lows, closes, period)
        P == SumSeq(LastN(plus_dm, period))
        M == SumSeq(LastN(minus_dm, period))
    IN IF n < period + 1 THEN <<>>
       ELSE IF atr = <<>> \/ atr[1] = 0 THEN <<>>
       ELSE IF P + M = 0 THEN <<0, 1>>
       ELSE <<100 * Abs(P - M), P + M>>

\* one call of compute_atr or of compute_adx on a series of bars
IndicatorCall(op, series, period) ==
    LET highs == [i \in DOMAIN series |-> series[i].high]
        lows == [i \in DOMAIN series |-> series[i].low]
        closes == [i \in DOMAIN series |-> series[i].close]
    IN /\ ~decision.made
       /\ decision' = [made |-> TRUE, op |-> op, series |-> series, period |-> period,
                       out |-> IF op = "compute_atr"
                               THEN ComputeAtrPeriod(highs, lows, closes, period)
                               ELSE ComputeAdx(highs, lows, closes, period)]
       /\ UNCHANGED <<storeVars, aggVars, streamVars, alertVars, dedupeVars, snapVars,
                      thrVars, fsVars, aliasVars, vwapVars>>

\* a rising, a falling, a wide and a flat bar
IndicatorBars ==
    {[high |-> 12, low |-> 10, close |-> 11], [high |-> 9, low |-> 6, close |-> 7],
     [high |-> 15, low |-> 5, close |-> 14], [high |-> 10, low |-> 10, close |-> 10]}

NextIndicator ==
    /\ ~decision.made
    /\ \E series \in SeqsUpTo(IndicatorBars, MaxIndicatorBars), period \in 1..MaxPeriod :
          \/ IndicatorCall("compute_atr", series, period)
          \/ IndicatorCall("compute_adx", series, period)

SpecIndicator == InitCap /\ [][NextIndicator]_vars

\* calls on one calculator, built with or without a window
NextVwap ==
    \/ \E price \in {<<>>, <<10>>, <<20>>},
          volume \in {<<>>, <<0>>, <<-100>>, <<100>>, <<300>>} : CallUpdate(price, volume)
    \/ CallGetVwap
    \/ \E price \in {<<>>, <<10>>, <<20>>} : CallGetContext(price)
    \/ CallReset

\* a calculator built without a window or with one of VwapWindow
InitCalc ==
    /\ Init0 /\ InitThreads /\ InitFs /\ InitAlias /\ InitDec
    /\ InitVwap({0, VwapWindow}) /\ max_len = MaxCap

SpecVwap == InitCalc /\ [][NextVwap]_vars

(***************************************************************************)
(* Claims about ingestion                                                  *)
(***************************************************************************)
\* C1: after N append_ohlc_bar calls for an instrument on a store of capacity
\* max_len, its history has length min(N, max_len) and is exactly the max_len
\* most recently appended bars, in arrival order.
C1_FifoHistory ==
    \A i \in Insts :
        IF i \in DOMAIN bars
        THEN /\ Len(bars[i]) = Min(Len(arrived[i]), max_len)
             /\ bars[i] = LastN(arrived[i], max_len)
        ELSE arrived[i] = <<>>

\* an instrument that received more bars than the capacity, the evicted first
\* bar differing from the newest one
C1_Witness ==
    \E i \in DOMAIN bars :
        /\ Len(arrived[i]) > max_len
        /\ arrived[i][1] # arrived[i][Len(arrived[i])]
        /\ bars[i] = LastN(arrived[i], max_len)

\* C4: when a bar-close callback raises during append_ohlc_bar, the bar is
\* stored, every callback registered at the call is invoked with
\* (instrument, bar), the call returns normally, and this also holds of
\* appends made after a failing one.
C4_CallbackIsolation ==
    lastCall.inst # None =>
        /\ lastCall.outcome = "returned"
        /\ lastCall.invoked =
              [k \in 1..Len(lastCall.cbs) |->
                  <<lastCall.cbs[k], lastCall.inst, lastCall.bar>>]
        /\ lastCall.inst \in DOMAIN bars
        /\ bars[lastCall.inst] # <<>>
        /\ bars[lastCall.inst][Len(bars[lastCall.inst])] = lastCall.bar
        /\ bars_closed = Arrivals

\* the first of two registered callbacks raised, the second was still invoked,
\* and an earlier append had a raising callback too
C4_Witness ==
    /\ lastCall.inst # None
    /\ lastCall.afterRaise
    /\ Len(lastCall.cbs) = 2
    /\ lastCall.cbs[1] \in lastCall.raised
    /\ lastCall.cbs[2] \notin lastCall.raised
    /\ Len(lastCall.invoked) = 2
    /\ lastCall.outcome = "returned"

(***************************************************************************)
(* Claims about the aggregator and the streamer                            *)
(***************************************************************************)
\* C2: Candle5mBuilder.update returns True iff the instrument was fed before
\* and the incoming bar's 5-minute bucket differs from the bucket of the bar
\* fed before it; the first bar ever fed returns False.
C2_UpdateReturn ==
    [][\A i \in Insts :
          retLog'[i] # retLog[i] =>
             (retLog'[i][Len(retLog'[i])] <=>
                 (prevFed[i] # <<>> /\ Floor5m(prevFed'[i][1]) # Floor5m(prevFed[i][1])))]_vars

\* five bars inside the bucket of minute 0, then one bar of the next bucket:
\* false, false, false, false, false, true
C2_Witness ==
    /\ retLog["A"] = <<FALSE, FALSE, FALSE, FALSE, FALSE, TRUE>>
    /\ "A" \in DOMAIN last_5m_time
    /\ last_5m_time["A"] = 0
    /\ buffers["A"].time = 300

\* C13: when update closes a bucket, the candle accumulated for that bucket
\* (its open, high, low, close and volume) stays retrievable from the
\* aggregator as its latest closed candle.
C13_ClosedCandleKept ==
    [][\A i \in Insts :
          (retLog'[i] # retLog[i] /\ retLog'[i][Len(retLog'[i])]) =>
             /\ GetLastClosedTime(last_5m_time', i) = {buffers[i].time}
             /\ buffers[i] \in GetLatest(buffers', i)]_vars

\* C3: for each instrument the streamer has called strategy_engine.evaluate
\* exactly once per update call that returned True, and never otherwise.
C3_EvaluateOncePerClose ==
    \A i \in Insts :
        evals[i] = Cardinality({k \in 1..Len(retLog[i]) : retLog[i][k]})

\* a bar that did not close a bucket, a bar that closed one and was evaluated,
\* and a further message that caused neither an update nor an evaluation
C3_Witness ==
    /\ retLog["A"] = <<FALSE, TRUE>>
    /\ evals["A"] = 1
    /\ retLog["B"] = <<>>
    /\ msgs = 3

(***************************************************************************)
(* Claims about alert throttling                                           *)
(***************************************************************************)
\* C6: of two concurrent dedupe_alert calls for the same (instrument,
\* direction), with no alert recorded before, exactly one returns False and
\* the other returns True.
C6_DedupeAtomic ==
    (/\ \A t \in Callers : dpc[t] = "done"
     /\ overlap
     /\ dloc["t1"].inst = dloc["t2"].inst
     /\ dloc["t1"].direction = dloc["t2"].direction)
    => Cardinality({t \in Callers : ~dloc[t].ret}) = 1

\* C7: can_emit_alert(inst, cooldown) returns False iff the current time is
\* before the instrument's paused-until time or fewer than cooldown seconds
\* have passed since the last mark_alert_emitted(inst); it returns True for
\* an instrument that never emitted and is not paused.
C7_CanEmitAlert ==
    [][canRes' # canRes =>
         LET i == canRes'.inst
             paused == i \in DOMAIN paused_until /\ now < paused_until[i]
             cooling == i \in DOMAIN last_alert_time
                        /\ now - last_alert_time[i] < canRes'.cooldown
         IN canRes'.ret = ~(paused \/ cooling)]_vars

\* a query answered True exactly cooldown seconds after the last emission,
\* for an instrument whose pause has expired
C7_Witness ==
    /\ canRes.inst = "A"
    /\ canRes.ret
    /\ canRes.at = now
    /\ "A" \in DOMAIN last_alert_time
    /\ now - last_alert_time["A"] = canRes.cooldown
    /\ "A" \in DOMAIN paused_until
    /\ paused_until["A"] > 0
    /\ paused_until["A"] <= now

(***************************************************************************)
(* Claims about snapshots                                                  *)
(***************************************************************************)
\* C8: after load_snapshot succeeds on a file save_snapshot wrote, the
\* in-memory histories, last_alert_time, dedupe map and paused-until map
\* equal exactly what the file holds; histories of instruments absent from
\* the snapshot are gone.
C8_LoadReplacesState ==
    (loadRes.ret = "True" /\ loadRes.writer = "save") => loadRes.post = loadRes.expect

\* C9: load_snapshot on a missing or corrupt file reports failure and leaves
\* the in-memory state exactly as it was before the call.
C9_LoadFailureKeepsState ==
    loadRes.file \in {"missing", "corrupt"} =>
        (loadRes.ret # "True" /\ loadRes.post = loadRes.pre)

(***************************************************************************)
(* Claims about concurrent callers                                         *)
(***************************************************************************)
\* C5: no bar-close callback runs while its thread holds the instrument's
\* lock, in append_ohlc_bar and in replay_bars(call_callbacks=True), so a
\* callback reading the same instrument's history is never stuck.
C5_CallbackOutsideLock ==
    \A t \in Threads :
        pc[t] = "cb_read" => locks[loc[t].inst] # t

\* C10: the histories a finished save_snapshot wrote are, for all
\* instruments together, the histories the store held at one instant between
\* the start and the end of that save.
C10_SnapshotPointInTime ==
    lastSave.done => lastSave.snap \in lastSave.seen

(***************************************************************************)
(* Claims about files and returned values                                  *)
(***************************************************************************)
\* C11: at every instant the file at the snapshot path is absent or a
\* complete snapshot that save_snapshot wrote, never a partially written
\* file, also when a save fails in the middle and when two saves overlap.
C11_NoPartialFile ==
    SnapPath \in DOMAIN files => files[SnapPath].kind = "object"

\* C12: what the accessors and append_ohlc_bar hand out is independent of
\* the store: a write by the caller into a returned list or a returned bar
\* never changes the stored history.
C12_ReturnedCopiesIndependent ==
    [][held'.writes # held.writes => bars' = bars]_vars

(***************************************************************************)
(* Claims about the decision engine                                        *)
(***************************************************************************)
DecisionMade == decision.made /\ decision.op = "final_trade_decision"

StateName(prefix, direction) ==
    IF prefix = "EXECUTE"
    THEN (IF direction = "LONG" THEN "EXECUTE_LONG" ELSE "EXECUTE_SHORT")
    ELSE (IF direction = "LONG" THEN "PREPARE_LONG" ELSE "PREPARE_SHORT")

TradeStates == {"PREPARE_LONG", "PREPARE_SHORT", "EXECUTE_LONG", "EXECUTE_SHORT"}

IgnoreResult(out) ==
    /\ out.kind = "return"
    /\ out.state = "IGNORE"
    /\ out.score = 0
    /\ out.direction = None

\* C14: whenever analyze_liquidity over the supplied volumes yields a
\* negative score, final_trade_decision returns IGNORE with score 0 and no
\* direction, whatever the other inputs are.
C14_IlliquidIsIgnored ==
    (DecisionMade /\ AnalyzeLiquidity(decision.series.volumes).score < 0)
        => IgnoreResult(decision.out)

\* C15: every DecisionResult final_trade_decision returns has a score within
\* [0, 10] and the state its score and the pullback direction give:
\* EXECUTE_dir from 6.2, PREPARE_dir from 4.8 up to 6.2, IGNORE below.
C15_ScoreClassifies ==
    (DecisionMade /\ decision.out.kind = "return") =>
        /\ decision.out.score >= 0
        /\ decision.out.score <= 1000
        /\ decision.out.state =
              IF decision.out.score >= 620
              THEN StateName("EXECUTE", decision.pullback_signal.direction)
              ELSE IF decision.out.score >= 480
              THEN StateName("PREPARE", decision.pullback_signal.direction)
              ELSE "IGNORE"

\* a result returned after the structure and alignment points were counted
C15_Witness ==
    /\ DecisionMade
    /\ decision.out.kind = "return"
    /\ decision.out.reason = "bad regime"
    /\ decision.out.score = 0

\* C16: for a POTENTIAL pullback signal final_trade_decision returns
\* PREPARE_dir with the signal's own score, and never EXECUTE_*.
C16_PotentialPrepares ==
    (DecisionMade /\ decision.pullback_signal.signal = "POTENTIAL") =>
        /\ decision.out.kind = "return"
        /\ decision.out.state = StateName("PREPARE", decision.pullback_signal.direction)
        /\ decision.out.score = decision.pullback_signal.score

Misaligned(d) ==
    \/ d.pullback_signal.direction = "LONG" /\ d.htf_bias_direction # "BULLISH"
    \/ d.pullback_signal.direction = "SHORT" /\ d.htf_bias_direction # "BEARISH"
    \/ d.pullback_signal.direction = "LONG" /\ d.vwap_ctx.acceptance = "BELOW"
    \/ d.pullback_signal.direction = "SHORT" /\ d.vwap_ctx.acceptance = "ABOVE"

\* C18: final_trade_decision returns PREPARE_* or EXECUTE_* only when the
\* direction agrees with the bias (LONG with BULLISH, SHORT with BEARISH) and
\* VWAP is not on the wrong side (not BELOW for LONG, not ABOVE for SHORT):
\* a signal that fails either test is answered with IGNORE.
C18_AlignedOrIgnored ==
    (DecisionMade /\ decision.pullback_signal.present) =>
        /\ decision.out.state \in TradeStates => ~Misaligned(decision)
        /\ Misaligned(decision) => IgnoreResult(decision.out)

\* a LONG signal under a BULLISH bias in a trend, with price below VWAP
C18_Witness ==
    /\ DecisionMade
    /\ decision.pullback_signal.direction = "LONG"
    /\ decision.htf_bias_direction = "BULLISH"
    /\ decision.market_regime = "TREND"
    /\ decision.vwap_ctx.acceptance = "BELOW"
    /\ decision.out.reason = "below vwap"

EvaluateMade == decision.made /\ decision.op = "evaluate"

\* C17: when the regime detect_market_regime computes is RANGE, neither
\* StrategyEngine.evaluate nor final_trade_decision called with that regime
\* yields a PREPARE_* or EXECUTE_* decision.
C17_RangeNeverTrades ==
    /\ (EvaluateMade /\ decision.regime = "RANGE") =>
           ~(decision.out.kind = "return" /\ decision.out.state \in TradeStates)
    /\ (DecisionMade /\ decision.market_regime = "RANGE") =>
           ~(decision.out.kind = "return" /\ decision.out.state \in TradeStates)

\* an evaluation in a RANGE regime that passed every gate of evaluate and
\* got as far as the detector call
C17_Witness ==
    /\ EvaluateMade
    /\ decision.regime = "RANGE"
    /\ decision.mtf_ctx.direction = "BULLISH"
    /\ decision.htf_bias = "BULLISH"
    /\ decision.out.reason = "strategy_engine.py:140"

DetectMade == decision.made /\ decision.op = "detect_pullback_signal"

\* C20: detect_pullback_signal returns no signal whenever the last bar has
\* no rejection wick of the trade direction's polarity and the last close is
\* not beyond the close two bars earlier in that direction, and
\* final_trade_decision answers that outcome with IGNORE.
C20_NoWickNoResumeNoSignal ==
    LET direction == TradeDirection(decision.nearest, decision.htf_direction)
    IN (/\ DetectMade
        /\ ~RejectionOk(direction, decision.highs, decision.lows, decision.closes)
        /\ ~ResumeOk(direction, decision.closes))
       => /\ decision.out.kind = "return"
          /\ ~decision.out.signal.present
          /\ \A rg \in RegimeNames, vw \in VwapContexts :
                IgnoreResult(FinalTradeDecision(decision.out.signal, rg,
                                                decision.htf_direction, vw,
                                                SeriesOf(decision.volumes)))

(***************************************************************************)
(* Claims about the VWAP calculator                                        *)
(***************************************************************************)

VwapEmpty(c) == c.price_volume_sum = 0 /\ c.volume_sum = 0 /\ c.vwap_history = <<>>

\* C21: on a calculator without a window no call makes volume_sum smaller
\* except reset, and only reset takes the sums and the history back to empty.
C21_VolumeSumMonotone ==
    [][calc.window = 0 =>
          /\ calc'.volume_sum < calc.volume_sum => vwap_trace'.op = "reset"
          /\ Len(calc'.vwap_history) < Len(calc.vwap_history) => vwap_trace'.op = "reset"
          /\ (VwapEmpty(calc') /\ ~VwapEmpty(calc)) => vwap_trace'.op = "reset"]_vars

\* an unbounded calculator read after a rejected update followed accepted ones
C21_Witness ==
    /\ calc.window = 0
    /\ vwap_trace.op = "get_context"
    /\ vwap_trace.updates = << << <<10>>, <<100>> >>, << <<20>>, <<300>> >>, << <<20>>, <<-100>> >> >>
    /\ calc.volume_sum = 400

Accepted(u) == u[1] # <<>> /\ u[2] # <<>> /\ u[2][1] > 0

RECURSIVE AcceptedSums(_)
AcceptedSums(updates) ==
    IF updates = <<>> THEN <<0, 0>>
    ELSE LET rest == AcceptedSums(Tail(updates))
             u == Head(updates)
         IN IF Accepted(u)
            THEN <<rest[1] + u[1][1] * u[2][1], rest[2] + u[2][1]>>
            ELSE rest

\* C22: on a calculator without a window get_vwap is the sum of price *
\* volume over the sum of volume of the accepted updates since the last
\* reset (None when there is none), (10, 100) then (20, 100) give 15, and a
\* rejected update changes nothing.
C22_VwapExact ==
    /\ [](calc.window = 0 =>
             LET want == AcceptedSums(vwap_trace.updates)
                 got == VwapGetVwap(calc)
             IN /\ want[2] = 0 => got = <<>>
                /\ want[2] # 0 => (got # <<>> /\ got[1] * want[2] = want[1] * got[2])
                /\ vwap_trace.updates = << << <<10>>, <<100>> >>, << <<20>>, <<100>> >> >>
                      => (got # <<>> /\ got[1] = 15 * got[2]))
    /\ [][(/\ calc.window = 0
            /\ vwap_trace'.op = "update"
            /\ ~Accepted(vwap_trace'.updates[Len(vwap_trace'.updates)]))
           => calc' = calc]_vars

\* the example of the claim, read back
C22_Witness ==
    /\ calc.window = 0
    /\ vwap_trace.op = "get_vwap"
    /\ vwap_trace.updates = << << <<10>>, <<100>> >>, << <<20>>, <<100>> >> >>
    /\ vwap_trace.ret = <<3000, 200>>

(***************************************************************************)
(* Claims about support and resistance levels                              *)
(***************************************************************************)

SrMade == decision.made /\ decision.op = "compute_sr_levels"

\* two levels further apart than the tolerance taken of the lower one
Apart(lower, higher) == (higher - lower) * 10000 > ClusterTolPct * lower

\* C23: compute_sr_levels returns at most max_levels supports in ascending
\* order of level and at most max_levels resistances in descending order, and
\* two zones of the same type are further apart than the clustering tolerance.
C23_ZonesSortedApart ==
    SrMade =>
        LET sup == decision.out.supports
            res == decision.out.resistances
        IN /\ Len(sup) <= decision.max_levels
           /\ Len(res) <= decision.max_levels
           /\ \A k \in 1..(Len(sup) - 1) :
                 /\ sup[k].level < sup[k + 1].level
                 /\ Apart(sup[k].level, sup[k + 1].level)
           /\ \A k \in 1..(Len(res) - 1) :
                 /\ res[k].level > res[k + 1].level
                 /\ Apart(res[k + 1].level, res[k].level)

ClusterMade == decision.made /\ decision.op = "_cluster_levels"

Occurrences(s, v) == Cardinality({i \in DOMAIN s : s[i] = v})

\* p within the tolerance of the mean of members
WithinTol(p, members) ==
    Abs(p * Len(members) - SumSeq(members)) * 10000 <= SumSeq(members) * ClusterTolPct

\* what _cluster_levels is claimed to do, the level of a zone being the mean
\* of its members exactly, or that mean rounded to the sixth decimal
ClusterClaim(exact) ==
    ClusterMade =>
        LET cl == decision.clusters
            out == decision.out
            all == UNION {{c[k] : k \in DOMAIN c} : c \in {cl[k] : k \in DOMAIN cl}}
        IN \* every input value is in exactly one zone
           /\ \A v \in {decision.peaks[i] : i \in DOMAIN decision.peaks} \cup all :
                 /\ Occurrences(decision.peaks, v)
                       = SumSeq([k \in DOMAIN cl |-> Occurrences(cl[k], v)])
                 /\ Cardinality({k \in DOMAIN cl : Occurrences(cl[k], v) > 0}) = 1
           \* a value joins the current zone iff within the tolerance of its mean
           /\ \A k \in DOMAIN cl :
                 /\ cl[k] # <<>>
                 /\ \A m \in 2..Len(cl[k]) : WithinTol(cl[k][m], SubSeq(cl[k], 1, m - 1))
                 /\ k > 1 => ~WithinTol(cl[k][1], cl[k - 1])
           \* count, level and strength of each zone
           /\ Len(out) = Len(cl)
           /\ \A k \in DOMAIN cl :
                 /\ out[k].count = Len(cl[k])
                 /\ out[k].strength = Min(Len(cl[k]), 5)
                 /\ IF exact THEN out[k].level * Len(cl[k]) = SumSeq(cl[k])
                    ELSE out[k].level = RoundDiv(SumSeq(cl[k]), Len(cl[k]))
           \* the example, at the scale of the model
           /\ (Len(decision.peaks) = 5 /\ all = {2000, 2002, 2004, 3000, 3006})
                 => (Len(out) = 2 /\ out[1].count = 3 /\ out[2].count = 2)

\* C24 as stated: _cluster_levels partitions the input into zones, a value
\* joining the current zone iff it is within the tolerance of its running
\* mean; a zone's count is its number of members, its level their mean and
\* its strength min(count, 5); the example gives two zones of 3 and of 2.
C24_ClusterPartition == ClusterClaim(TRUE)

\* C24 amended: the same, the level of a zone being the mean of its members
\* rounded to six decimals.
C24_ClusterPartitionRounded == ClusterClaim(FALSE)

\* three peaks whose mean has more than six decimals, and a fourth beyond
\* the tolerance
C24_Witness ==
    /\ ClusterMade
    /\ decision.peaks = <<2010, 2002, 2000, 2000>>
    /\ Len(decision.out) = 2
    /\ decision.out[1] = [level |-> 2001, count |-> 3, strength |-> 3]

(***************************************************************************)
(* Claims about ATR and ADX                                                *)
(***************************************************************************)

\* the true range of bar i of a series, i >= 2
TrueRangeOf(series, i) ==
    Max(series[i].high - series[i].low,
        Max(Abs(series[i].high - series[i - 1].close),
            Abs(series[i].low - series[i - 1].close)))

\* C25: compute_atr and compute_adx return None whenever fewer than period + 1
\* bars are supplied, and on period + 1 bars or more compute_atr returns the
\* arithmetic mean of the last period true ranges.
C25_AtrAdxAvailability ==
    (decision.made /\ decision.op \in {"compute_atr", "compute_adx"}) =>
        LET n == Len(decision.series)
            period == decision.period
            last == SumSeq([k \in 1..period |-> TrueRangeOf(decision.series, n - period + k)])
        IN /\ n < period + 1 => decision.out = <<>>
           /\ (n >= period + 1 /\ decision.op = "compute_atr") =>
                 /\ decision.out # <<>>
                 /\ decision.out[1] * period = last * decision.out[2]

\* compute_atr refusing exactly period bars, which give period - 1 true ranges
C25_Witness ==
    /\ decision.made /\ decision.op = "compute_atr" /\ decision.period = 2
    /\ decision.series = <<[high |-> 12, low |-> 10, close |-> 11],
                           [high |-> 15, low |-> 5, close |-> 14]>>
    /\ decision.out = <<>>

(***************************************************************************)
(* Claims about the candle in progress                                     *)
(***************************************************************************)

\* the bars of log from the one that opened the current bucket: the longest
\* run of bars at the end of log that floor to the bucket of the last one
SinceBucketOpened(log) ==
    LET n == Len(log)
        Same(j) == \A k \in j..n : Floor5m(log[k].time) = Floor5m(log[n].time)
        start == CHOOSE j \in 1..n : Same(j) /\ \A m \in 1..(j - 1) : ~Same(m)
    IN SubSeq(log, start, n)

RECURSIVE MaxOf(_)
MaxOf(s) == IF Len(s) = 1 THEN s[1] ELSE Max(s[1], MaxOf(Tail(s)))

RECURSIVE MinOf(_)
MinOf(s) == IF Len(s) = 1 THEN s[1] ELSE Min(s[1], MinOf(Tail(s)))

\* the aggregate of a non-empty run of bars of one bucket
Aggregate(run) ==
    [time |-> Floor5m(run[1].time),
     open |-> run[1].open,
     high |-> MaxOf([k \in DOMAIN run |-> run[k].high]),
     low |-> MinOf([k \in DOMAIN run |-> run[k].low]),
     close |-> run[Len(run)].close,
     volume |-> SumSeq([k \in DOMAIN run |-> run[k].volume])]

\* C26: at every point get_latest(inst) is the aggregate of the bars fed for
\* inst since its current bucket was opened (time the bucket start, open of
\* the first bar, highest high, lowest low, close of the last bar, volumes
\* summed), and an update for another instrument leaves it unchanged.
C26_LatestIsAggregate ==
    /\ [](\A i \in Insts :
            IF fedLog[i] = <<>> THEN GetLatest(buffers, i) = {}
            ELSE GetLatest(buffers, i) = {Aggregate(SinceBucketOpened(fedLog[i]))})
    /\ [][\A i \in Insts :
            fedLog'[i] = fedLog[i] => GetLatest(buffers', i) = GetLatest(buffers, i)]_vars

\* A was fed 00:04:00, then 00:05:00, 00:09:59 and, in between, B its own bar
C26_Witness ==
    /\ Len(fedLog["A"]) = 3 /\ Len(fedLog["B"]) = 1
    /\ fedLog["A"][1].time = 240 /\ fedLog["A"][2].time = 300 /\ fedLog["A"][3].time = 599
    /\ fedLog["A"][2].high = 5 /\ fedLog["A"][3].high = 4
    /\ GetLatest(buffers, "A") =
          {[time |-> 300, open |-> 3, high |-> 5, low |-> 1, close |-> 3, volume |-> 3]}

(***************************************************************************)
(* Claims about repeated bars in the streamer                              *)
(***************************************************************************)

\* last_bar_time.get(inst)
LastSeen(seen, inst) == IF inst \in DOMAIN seen THEN {seen[inst]} ELSE {}

C28_CountMatchesStored ==
    (\A t \in Threads : pc[t] \notin {"load", "store"}) =>
        bars_closed = Len(arrived["A"]) + Len(arrived["B"])

\* thread t is inside append_ohlc_bar or an accessor
Ingesting(t) == pc[t] # "idle" /\ loc[t].op \in {"append", "get"}

\* the lock thread t is waiting for, or is about to take, is held by u
WaitsFor(t, u) ==
    \/ pc[t] = "ensure" /\ global_lock = u
    \/ pc[t] \in {"lock", "g_lock"} /\ locks[loc[t].inst] = u

\* C29: an append_ohlc_bar or accessor call for one instrument never has to
\* wait for a lock held by a concurrent append_ohlc_bar or accessor call for
\* a different instrument.
C29_NoCrossInstrumentWait ==
    \A t \in Threads, u \in Threads :
        (t # u /\ Ingesting(t) /\ Ingesting(u) /\ loc[t].inst # loc[u].inst)
            => ~WaitsFor(t, u)

(***************************************************************************)
(* Claims about entries                                                    *)
(***************************************************************************)

\* C30: the streamer invokes execution_engine.handle_entry at most once per
\* instrument and calendar day, however many EXECUTE_* decisions the
\* instrument gets that day, and only for a decision whose state starts with
\* EXECUTE.
C30_OneEntryPerDay ==
    /\ [](\A k \in Insts \X Days : entries[k] <= 1 /\ entries[k] <= executes[k])
    /\ [][\A k \in Insts \X Days :
            entries'[k] # entries[k] => (k[2] = today /\ executes'[k] > executes[k])]_vars

\* A got two EXECUTE_* decisions on day 1 and one entry
C30_Witness ==
    /\ executes[<<"A", 1>>] = 2
    /\ entries[<<"A", 1>>] = 1

====
